---- MODULE Spec2Model ----
(***************************************************************************)
(* AutoNFS: the idle watcher (internal/watcher) and the declarative        *)
(* deployer (internal/deployer), modelled from the Go sources.             *)
(*                                                                         *)
(* Time is an integer count of clock units.  File contents are sequences   *)
(* of string tokens; the tokens " " and "\n" are white space.              *)
(***************************************************************************)
EXTENDS Integers, Sequences, FiniteSets, TLC

(***************************************************************************)
(* Bounds of the watcher model.                                            *)
(***************************************************************************)
MaxTime == 5          \* clock horizon: no tick is taken after this instant
MaxStep == 2          \* largest distance between two consecutive ticks
MaxIdleTimeout == 2   \* cfg.IdleTimeout ranges over 1..MaxIdleTimeout
MaxLoad == 1          \* load1 and cfg.LoadThreshold range over 0..MaxLoad / 1..MaxLoad
MaxEntries == 1       \* entries listed in the NFSv4 clients directory
OpsModulus == 4       \* stands for 2^64: the width of the uint64 ops counters

VARIABLES
  \* ---- watcher: Monitor.Watch ----
  watchPc,          \* position of Watch: "select", "load", "clients", "rpc", "decide",
                    \* and "returned" after its only return statement, return nil
  ctxDone,          \* ctx.Done() is closed
  cfgW,             \* WatchConfig: [IdleTimeout, LoadThreshold, DryRun]
  now,              \* wall clock
  idleStart,        \* local idleStart of Watch
  lastOps,          \* local lastOps of Watch
  shutdownInvoked,  \* m.ShutdownFunc has been invoked at least once
  tk,               \* locals of the tick in progress, or of the tick just completed
  lastActiveAt,     \* history: time of the most recent ACTIVE tick, -1 if none
  clientlessTick,   \* history: some completed tick found no attached client
  wouldAt,          \* history: <<previous, latest>> dry-run ticks that reached the threshold
  shutdownFailed,   \* history: some earlier call of m.ShutdownFunc returned an error
  sampled,          \* history: some earlier m.getNFSProcCount succeeded
  rpcFailedLast     \* history: the latest m.getNFSProcCount failed

wvars == <<watchPc, ctxDone, cfgW, now, idleStart, lastOps, shutdownInvoked, tk,
           lastActiveAt, clientlessTick, wouldAt, shutdownFailed, sampled,
           rpcFailedLast>>

VARIABLES
  \* ---- deployer: Deployer.Apply / applyHost ----
  cfgD,            \* the configuration handed to Apply: a sequence of hosts
  optsD,           \* ApplyOptions of the current run: [DryRun, WatcherDryRun]
  run,             \* number of Apply invocations started so far
  applyPc,         \* position inside Apply/applyHost, "idle" when no run is in progress
  hostIdx,         \* index of the host being processed
  mountIdx,        \* index of the mount being processed
  serviceChanged,  \* local of applyHost
  unitChanged,     \* local of applyHost, per mount
  anyHostChange,   \* local of applyHost
  remote,          \* per alias: the files installed on the server
  localFiles,      \* the unit files under /etc/systemd/system on the client
  opLog,           \* operations performed by the current run, in order
  applyErr,        \* error returned by the current or last run, NoErr if none
  prevRun          \* history: the run before the current one [ran, ok, dry], and
                   \* fresh: the current run started with nothing installed

dctl == <<applyPc, hostIdx, mountIdx, applyErr>>
dvars == <<cfgD, optsD, run, applyPc, hostIdx, mountIdx, serviceChanged,
           unitChanged, anyHostChange, remote, localFiles, opLog, applyErr,
           prevRun>>

VARIABLES
  \* ---- RunUndeploy, with Client.RunTerminal for its remote part ----
  undPc,      \* position: "local", "connect", "session", "pty", "raw", "run",
              \* "returned", or "killed" when a signal ended the process
  undOpts,    \* Options: [LocalDir, SSHAlias]
  undStep,    \* index of the next local cleanup command
  undLog,     \* the commands attempted so far, in order: [where, cmd, ok]
  undErr,     \* the error RunUndeploy returned, "" for nil
  termRaw     \* the local terminal is in raw mode

uvars == <<undPc, undOpts, undStep, undLog, undErr, termRaw>>

VARIABLES
  \* ---- the wake command: wol.NewMagicPacket, Send, wol.WaitForPort ----
  wakePc,      \* position: "packet", "send", "loop", "dial", "sleep", "exited"
  wakeArgs,    \* flags of the command: [mac, timeout]
  packet,      \* the MagicPacket built, <<>> before
  sendOk,      \* result of packet.Send: "none", "ok", "failed"
  clk,         \* time since the command started, in clock units
  deadline,    \* local deadline of WaitForPort
  upAt,        \* the target port accepts connections from this time on, -1: never
  attempts,    \* history: number of connect attempts started
  attemptAt,   \* history: start times <<previous, latest>> of the connect attempts
  waitResult,  \* what WaitForPort returned: "running", "ok", "timeout"
  exitCode     \* exit code of the command, -1 while it runs

kvars == <<wakePc, wakeArgs, packet, sendOk, clk, deadline, upAt, attempts,
           attemptAt, waitResult, exitCode>>

VARIABLES
  \* ---- discover.parseNetworkInfo, called on its own ----
  probePc,    \* position: "call", "done"
  probeRaw,   \* the argument raw, a sequence of characters
  probeOut    \* what the call returned: [err, iface, ip, mac]

pvars == <<probePc, probeRaw, probeOut>>

VARIABLES
  \* ---- config.ParseConfig, called on its own ----
  confPc,     \* position: "call", "done"
  confData,   \* the argument data: [wellFormed, Hosts], what the YAML text holds
  confOut     \* what the call returned: [err, nil, Hosts]

cvars == <<confPc, confData, confOut>>

\* the variables of the smaller procedures
VARIABLES
  legacyOpts,    \* the Options that Run was called with
  legacyPc,      \* Run's position: "sudo", "delegate", "applied"
  sudoCheck      \* what became of `sudo -v`: "none", "ok", "warned", "skipped"

rvars == <<legacyOpts, legacyPc, sudoCheck>>

xvars == <<uvars, kvars, pvars, cvars, rvars>>

vars == <<wvars, dvars, xvars>>

(***************************************************************************)
(* Inputs of one tick: what the three kernel surfaces hold when read.      *)
(***************************************************************************)
\* /proc/loadavg: missing, empty, unparsable first token, or a load value
LoadReads ==
  {[kind |-> k, load |-> 0] : k \in {"missing", "empty", "garbage"}}
    \cup {[kind |-> "ok", load |-> l] : l \in 0..MaxLoad}

\* One entry of /proc/fs/nfsd/clients:
\*   "file"       not a directory
\*   "unreadable" a directory whose info file cannot be read
\*   "noaddr"     info has no line starting with address:
\*   "unquoted"   an address: line without a quoted value
\*   "addr"       address: "ip:port"
\*   "addrnoport" address: "ip"
EntryKinds == {"file", "unreadable", "noaddr", "unquoted", "addr", "addrnoport"}

SeqsUpTo(S, n) == UNION {[1..k -> S] : k \in 0..n}

ClientDirs ==
  {[ok |-> FALSE, entries |-> <<>>]}
    \cup {[ok |-> TRUE, entries |-> es] : es \in SeqsUpTo(EntryKinds, MaxEntries)}

\* /proc/net/rpc/nfsd: unreadable, or the sum of the proc3/proc4 counters
RpcReads ==
  {[ok |-> FALSE, total |-> 0]}
    \cup {[ok |-> TRUE, total |-> n] : n \in 0..(OpsModulus - 1)}

(***************************************************************************)
(* Monitor.checkLoad: (isLow, load, err)                                   *)
(***************************************************************************)
checkLoad(read, threshold) ==
  IF read.kind # "ok"
    THEN [isLow |-> FALSE, load |-> 0, err |-> TRUE]
    ELSE [isLow |-> read.load < threshold, load |-> read.load, err |-> FALSE]

(***************************************************************************)
(* Monitor.getNFSv4Clients: (clientIPs, err)                               *)
(***************************************************************************)
\* what one directory entry appends to clientIPs
EntryClients(kind) ==
  CASE kind = "addr" -> <<"ip">>
    [] kind = "addrnoport" -> <<"ip">>
    [] OTHER -> <<>>

RECURSIVE CollectClients(_)
CollectClients(entries) ==
  IF entries = <<>> THEN <<>>
  ELSE EntryClients(Head(entries)) \o CollectClients(Tail(entries))

getNFSv4Clients(dir) ==
  IF ~dir.ok
    THEN [clients |-> <<>>, err |-> TRUE]
    ELSE [clients |-> CollectClients(dir.entries), err |-> FALSE]

(***************************************************************************)
(* Monitor.getNFSProcCount: (totalOps, err)                                *)
(***************************************************************************)
getNFSProcCount(read) ==
  IF ~read.ok
    THEN [total |-> 0, err |-> TRUE]
    ELSE [total |-> read.total, err |-> FALSE]

(***************************************************************************)
(* Watch, data collection: the ops delta and the new lastOps.              *)
(***************************************************************************)
OpsDeltaSaturating(pcnt, last) ==
  IF pcnt.err THEN 0
  ELSE IF last > 0 /\ pcnt.total > last THEN pcnt.total - last
  ELSE 0

OpsDelta(pcnt, last) ==
  IF pcnt.err THEN 0
  ELSE IF last > 0 THEN (pcnt.total - last) % OpsModulus
  ELSE 0

NextLastOps(pcnt, last) == IF pcnt.err THEN last ELSE pcnt.total

(***************************************************************************)
(* Watch, decision phase: isActive and activeReason.                       *)
(***************************************************************************)
VerdictWithoutClients(isLowLoad, nClients, opsDelta) ==
  IF ~isLowLoad THEN [active |-> TRUE, reason |-> "High Load"]
  ELSE IF opsDelta > 0 THEN [active |-> TRUE, reason |-> "NFS Activity"]
  ELSE [active |-> FALSE, reason |-> ""]

Verdict(isLowLoad, nClients, opsDelta) ==
  IF ~isLowLoad THEN [active |-> TRUE, reason |-> "High Load"]
  ELSE IF nClients > 0 THEN [active |-> TRUE, reason |-> "Client Connected"]
  ELSE IF opsDelta > 0 THEN [active |-> TRUE, reason |-> "NFS Activity"]
  ELSE [active |-> FALSE, reason |-> ""]

(***************************************************************************)
(* Watch, action phase.                                                    *)
(***************************************************************************)
ThresholdReachedAtEqual(rawIdleDur, idleTimeout) == rawIdleDur >= idleTimeout

\* if rawIdleDur > cfg.IdleTimeout
ThresholdReached(rawIdleDur, idleTimeout) == rawIdleDur > idleTimeout

InvokesShutdownInDryRun(reached, dryRun) == reached /\ dryRun

\* if !cfg.DryRun { m.ShutdownFunc() }
InvokesShutdown(reached, dryRun) == reached /\ ~dryRun

IdleStartKeptInDryRun(active, reached, dryRun, t, old) ==
  IF active THEN t ELSE old

IdleStartResetWhenReached(active, reached, dryRun, t, old) ==
  IF active \/ reached THEN t ELSE old

IdleStartResetEveryTick(active, reached, dryRun, t, old) == t

\* idleStart after the tick taken at time t
NextIdleStart(active, reached, dryRun, t, old) ==
  IF active THEN t
  ELSE IF reached /\ dryRun THEN t
  ELSE old

\* tk before the first read of a tick
NoTick ==
  [done |-> FALSE, loadErr |-> FALSE, load |-> 0, isLow |-> FALSE,
   dirErr |-> FALSE, nClients |-> 0, rpcErr |-> FALSE, opsDelta |-> 0,
   active |-> FALSE, reason |-> "", elapsed |-> 0, reached |-> FALSE,
   called |-> FALSE, shutdownErr |-> FALSE,
   currOps |-> 0, prevOps |-> 0, hadSample |-> FALSE, afterFailed |-> FALSE,
   afterCall |-> FALSE]

WatchInit ==
  /\ watchPc = "select"
  /\ ctxDone = FALSE
  /\ cfgW \in [IdleTimeout : 1..MaxIdleTimeout, LoadThreshold : 1..MaxLoad,
               DryRun : BOOLEAN]
  /\ now = 0
  /\ idleStart = 0
  /\ lastOps = 0
  /\ shutdownInvoked = FALSE
  /\ tk = NoTick
  /\ lastActiveAt = -1
  /\ clientlessTick = FALSE
  /\ wouldAt = <<-1, -1>>
  /\ shutdownFailed = FALSE
  /\ sampled = FALSE
  /\ rpcFailedLast = FALSE

(***************************************************************************)
(* case <-ticker.C: the tick body, statement by statement.                 *)
(***************************************************************************)
\* the ticker fires d clock units after the previous tick
TickerFires ==
  /\ watchPc = "select"
  /\ \E d \in 1..MaxStep :
       /\ now + d <= MaxTime
       /\ now' = now + d
  /\ watchPc' = "load"
  /\ tk' = [NoTick EXCEPT !.afterCall = tk.called]
  /\ UNCHANGED <<ctxDone, cfgW, idleStart, lastOps, shutdownInvoked,
                 lastActiveAt, clientlessTick, wouldAt,
                 shutdownFailed, sampled, rpcFailedLast>>
  /\ UNCHANGED dvars
  /\ UNCHANGED xvars

\* isLowLoad, loadVal, err := m.checkLoad(cfg.LoadThreshold)
ReadLoad ==
  /\ watchPc = "load"
  /\ \E lr \in LoadReads :
       LET cl == checkLoad(lr, cfgW.LoadThreshold) IN
       tk' = [tk EXCEPT !.loadErr = cl.err, !.load = cl.load, !.isLow = cl.isLow]
  /\ watchPc' = "clients"
  /\ UNCHANGED <<ctxDone, cfgW, now, idleStart, lastOps, shutdownInvoked,
                 lastActiveAt, clientlessTick, wouldAt,
                 shutdownFailed, sampled, rpcFailedLast>>
  /\ UNCHANGED dvars
  /\ UNCHANGED xvars

\* clients, err := m.getNFSv4Clients()
ReadClients ==
  /\ watchPc = "clients"
  /\ \E dir \in ClientDirs :
       LET gc == getNFSv4Clients(dir) IN
       tk' = [tk EXCEPT !.dirErr = gc.err, !.nClients = Len(gc.clients)]
  /\ watchPc' = "rpc"
  /\ UNCHANGED <<ctxDone, cfgW, now, idleStart, lastOps, shutdownInvoked,
                 lastActiveAt, clientlessTick, wouldAt,
                 shutdownFailed, sampled, rpcFailedLast>>
  /\ UNCHANGED dvars
  /\ UNCHANGED xvars

\* currOps, err := m.getNFSProcCount(); opsDelta; lastOps = currOps
ReadRpc ==
  /\ watchPc = "rpc"
  /\ \E rr \in RpcReads :
       LET pcnt == getNFSProcCount(rr) IN
       /\ tk' = [tk EXCEPT !.rpcErr = pcnt.err, !.opsDelta = OpsDelta(pcnt, lastOps),
                           !.currOps = pcnt.total, !.prevOps = lastOps,
                           !.hadSample = sampled, !.afterFailed = rpcFailedLast]
       /\ lastOps' = NextLastOps(pcnt, lastOps)
       /\ sampled' = (sampled \/ ~pcnt.err)
       /\ rpcFailedLast' = pcnt.err
  /\ watchPc' = "decide"
  /\ UNCHANGED <<ctxDone, cfgW, now, idleStart, shutdownInvoked,
                 lastActiveAt, clientlessTick, wouldAt,
                 shutdownFailed>>
  /\ UNCHANGED dvars
  /\ UNCHANGED xvars

ReturnsOnShutdownError(sdErr) == IF sdErr THEN "returned" ELSE "select"

\* where Watch goes after the action phase: the error of m.ShutdownFunc is
\* logged and the for loop goes round
AfterAction(sdErr) == "select"

\* decision phase and logging & action phase
Decide ==
  /\ watchPc = "decide"
  /\ LET v == Verdict(tk.isLow, tk.nClients, tk.opsDelta)
         rawIdleDur == now - idleStart
         reached == ~v.active /\ ThresholdReached(rawIdleDur, cfgW.IdleTimeout)
         called == InvokesShutdown(reached, cfgW.DryRun)
     IN
     /\ \E sdErr \in (IF called THEN BOOLEAN ELSE {FALSE}) :
          /\ tk' = [tk EXCEPT !.done = TRUE, !.active = v.active, !.reason = v.reason,
                              !.elapsed = rawIdleDur,
                              !.reached = reached, !.called = called,
                              !.shutdownErr = sdErr]
          /\ shutdownFailed' = (shutdownFailed \/ sdErr)
          /\ watchPc' = AfterAction(sdErr)
     /\ idleStart' = NextIdleStart(v.active, reached, cfgW.DryRun, now, idleStart)
     /\ shutdownInvoked' = (shutdownInvoked \/ called)
     /\ lastActiveAt' = IF v.active THEN now ELSE lastActiveAt
     /\ clientlessTick' = (clientlessTick \/ tk.nClients = 0)
     /\ wouldAt' = IF reached /\ cfgW.DryRun THEN <<wouldAt[2], now>> ELSE wouldAt
  /\ UNCHANGED <<ctxDone, cfgW, now, lastOps, sampled, rpcFailedLast>>
  /\ UNCHANGED dvars
  /\ UNCHANGED xvars

\* the caller cancels the context
Cancel ==
  /\ watchPc # "returned"
  /\ ~ctxDone
  /\ ctxDone' = TRUE
  /\ UNCHANGED <<watchPc, cfgW, now, idleStart, lastOps, shutdownInvoked, tk,
                 lastActiveAt, clientlessTick, wouldAt,
                 shutdownFailed, sampled, rpcFailedLast>>
  /\ UNCHANGED dvars
  /\ UNCHANGED xvars

DoneNeverReady(done) == FALSE

\* the select can take case <-ctx.Done() once the context is cancelled
DoneReady(done) == done

\* case <-ctx.Done(): return nil
Return ==
  /\ watchPc = "select"
  /\ DoneReady(ctxDone)
  /\ watchPc' = "returned"
  /\ UNCHANGED <<ctxDone, cfgW, now, idleStart, lastOps, shutdownInvoked, tk,
                 lastActiveAt, clientlessTick, wouldAt,
                 shutdownFailed, sampled, rpcFailedLast>>
  /\ UNCHANGED dvars
  /\ UNCHANGED xvars

TickStep == ReadLoad \/ ReadClients \/ ReadRpc \/ Decide

WatchNext ==
  \/ TickerFires
  \/ ReadLoad
  \/ ReadClients
  \/ ReadRpc
  \/ Decide
  \/ Cancel
  \/ Return

(***************************************************************************)
(* The deployer.                                                           *)
(***************************************************************************)
MaxRuns == 2          \* Apply is invoked at most this many times in a row

\* a file that does not exist or cannot be read
NoFile == <<"ENOENT">>
\* content left behind by an earlier, different deployment
Stale == <<"[Unit]", "\n", "stale", "\n">>

NoErr == [host |-> "", step |-> ""]

\* ---- configurations ----
MountA1 == [Local |-> "/mnt/a", Remote |-> "/r1"]
MountB2 == [Local |-> "/mnt/b", Remote |-> "/r2"]
MountA2 == [Local |-> "/mnt/a", Remote |-> "/r2"]

HostOf(alias, idle, mounts) ==
  [Alias |-> alias, IdleTimeout |-> idle, WakeTimeout |-> "", Mounts |-> mounts]

\* configurations accepted by Config.Validate
Configs ==
  { <<HostOf("h1", idle, ms)>> :
       idle \in {"", "30m"},
       ms \in {<<MountA1>>, <<MountA1, MountB2>>, <<MountA1, MountA2>>} }
  \cup
  { <<HostOf("h1", "30m", <<MountA1>>), HostOf("h2", "", ms)>> :
       ms \in {<<MountB2>>, <<MountA2>>} }

Aliases == {"h1", "h2"}

\* ---- what the environment answers ----
\* discover.Probe: ServerInfo of a host
ServerIP(alias) == IF alias = "h1" THEN "10.0.0.1" ELSE "10.0.0.2"
ServerMAC(alias) == IF alias = "h1" THEN "00:11:22:33:44:01" ELSE "00:11:22:33:44:02"
\* getOutboundIP
LocalIP == "10.0.0.9"
\* os.Executable()
Exe == "/usr/local/bin/autonfs"

\* ---- strings.TrimSpace ----
White == {" ", "\n", "\t"}

RECURSIVE TrimLeft(_)
TrimLeft(s) == IF s # <<>> /\ Head(s) \in White THEN TrimLeft(Tail(s)) ELSE s

RECURSIVE TrimRight(_)
TrimRight(s) ==
  IF s # <<>> /\ s[Len(s)] \in White THEN TrimRight(SubSeq(s, 1, Len(s) - 1)) ELSE s

TrimSpace(s) == TrimRight(TrimLeft(s))

\* ---- templates.Render ----
\* ServerServiceTmpl
RenderService(idleTimeout, watcherDryRun) ==
  <<"[Unit]", "\n", "ExecStart=/usr/local/bin/autonfs watch --timeout ",
    idleTimeout, " --load ", "0.5">>
    \o (IF watcherDryRun THEN <<" --dry-run">> ELSE <<>>)
    \o <<"\n", "Restart=always", "\n", "[Install]", "\n">>

\* ServerExportsTmpl: {{range .Exports}}\n<path> <clientIP>(...)\n{{end}}
RECURSIVE RenderExports(_)
RenderExports(mounts) ==
  IF mounts = <<>> THEN <<>>
  ELSE <<"\n", Head(mounts).Remote, " ", LocalIP,
         "(rw,sync,no_subtree_check,no_root_squash)", "\n">>
       \o RenderExports(Tail(mounts))

\* ClientMountTmpl
RenderMount(serverIP, mac, m) ==
  <<"[Unit]", "\n", "What=", serverIP, ":", m.Remote, "\n", "Where=", m.Local,
    "\n", "ExecStartPre=", Exe, " wake --mac ", mac, " --ip ", serverIP,
    " --port 2049 --timeout ", "10s", "\n">>

\* ClientAutomountTmpl
RenderAutomount(idleTimeout, m) ==
  <<"[Unit]", "\n", "Where=", m.Local, "\n", "TimeoutIdleSec=", idleTimeout,
    "\n", "[Install]", "\n">>

\* applyHost: tmplCfg.WakeTimeout with its default; no template renders it
ServiceWakeTimeout(host) == IF host.WakeTimeout = "" THEN "120s" ELSE host.WakeTimeout

\* applyHost: tmplCfg.IdleTimeout with its default
ServiceIdleTimeout(host) == IF host.IdleTimeout = "" THEN "5m" ELSE host.IdleTimeout

ServiceContentOf(host, opts) ==
  RenderService(ServiceIdleTimeout(host), opts.WatcherDryRun)

ExportsContentOf(host) == RenderExports(host.Mounts)

MountContentOf(host, m) == RenderMount(ServerIP(host.Alias), ServerMAC(host.Alias), m)

AutomountContentOf(host, m) == RenderAutomount(host.IdleTimeout, m)

\* ---- escapeSystemdPath, on the paths of Configs ----
escapeSystemdPath(path) ==
  CASE path = "/mnt/a" -> "mnt-a"
    [] path = "/mnt/b" -> "mnt-b"
    [] OTHER -> "-"

UnitNames == {"mnt-a", "mnt-b"}
UnitFiles == UnitNames \X {"mount", "automount"}

\* ---- sshutil.Client.RunCommand("cat " + path) ----
RunCommandCat(file) ==
  IF file = NoFile
    THEN [out |-> <<>>, err |-> TRUE]
    ELSE [out |-> TrimSpace(file), err |-> FALSE]

\* ---- remoteHasChange ----
remoteHasChange(file, newContent) ==
  LET r == RunCommandCat(file) IN
  IF r.err THEN TRUE ELSE r.out # newContent

\* what a call of remoteHasChange returned, as it is kept in the operation log
Reported(changed) == IF changed THEN <<"changed">> ELSE <<"unchanged">>

\* ---- hasChange ----
hasChangeMissingIsSame(file, newContent) ==
  IF file = NoFile THEN FALSE ELSE file # newContent

hasChange(file, newContent) ==
  IF file = NoFile THEN TRUE ELSE file # newContent

\* ---- the fused remote installation command ----
InstallCmdsNeverRestart(svcChanged) ==
  << "mv /tmp/autonfs /usr/local/bin/autonfs",
     "chmod +x /usr/local/bin/autonfs",
     "mv /tmp/autonfs-watcher.service /etc/systemd/system/autonfs-watcher.service",
     "mkdir -p /etc/exports.d",
     "mv /tmp/autonfs.exports /etc/exports.d/autonfs.exports",
     "systemctl daemon-reload",
     "systemctl enable --now autonfs-watcher.service",
     "exportfs -ra" >>

InstallCmds(svcChanged) ==
  << "mv /tmp/autonfs /usr/local/bin/autonfs",
     "chmod +x /usr/local/bin/autonfs",
     "mv /tmp/autonfs-watcher.service /etc/systemd/system/autonfs-watcher.service",
     "mkdir -p /etc/exports.d",
     "mv /tmp/autonfs.exports /etc/exports.d/autonfs.exports",
     "systemctl daemon-reload",
     "systemctl enable --now autonfs-watcher.service",
     "exportfs -ra" >>
    \o (IF svcChanged THEN <<"systemctl restart autonfs-watcher.service">> ELSE <<>>)

\* the server's files after the first n commands of the installation ran
AfterInstall(old, n, service, exports) ==
  [bin |-> (old.bin \/ n >= 1),
   service |-> IF n >= 3 THEN service ELSE old.service,
   exports |-> IF n >= 5 THEN exports ELSE old.exports]

\* ---- if opts.DryRun: which steps are skipped ----
SkipsNothing(dryRun) == FALSE

\* the guard of every mutating step of applyHost
SkipsMutation(dryRun) == dryRun

\* ---- the operation log ----
Op(op, arg, flag, cmds) ==
  [op |-> op, host |-> hostIdx, unit |-> "", arg |-> arg, flag |-> flag,
   cmds |-> cmds]

\* an operation on the local unit file <<unit, kind>>
FileOp(op, file, flag, content) ==
  [op |-> op, host |-> hostIdx, unit |-> file[1], arg |-> file[2],
   flag |-> flag, cmds |-> content]

Logged(op, arg, flag) == Append(opLog, Op(op, arg, flag, <<>>))

CurHost == cfgD[hostIdx]
CurMount == CurHost.Mounts[mountIdx]
MountFile == <<escapeSystemdPath(CurMount.Local), "mount">>
AutomountFile == <<escapeSystemdPath(CurMount.Local), "automount">>
AutomountUnit == escapeSystemdPath(CurMount.Local)

\* ---- control flow ----
Goto(pc) ==
  /\ applyPc' = pc
  /\ UNCHANGED <<hostIdx, mountIdx, applyErr>>

\* an Apply that remembers the first error and goes on with the next host
ApplyContinuesAfterError(step) ==
  /\ applyErr' = IF applyErr = NoErr THEN [host |-> CurHost.Alias, step |-> step]
                 ELSE applyErr
  /\ IF hostIdx < Len(cfgD)
       THEN /\ applyPc' = "connect"
            /\ hostIdx' = hostIdx + 1
            /\ mountIdx' = 1
       ELSE /\ applyPc' = "idle"
            /\ UNCHANGED <<hostIdx, mountIdx>>

\* Apply: if err := d.applyHost(host, opts); err != nil { return fmt.Errorf(...) }
ApplyReturnsError(step) ==
  /\ applyPc' = "idle"
  /\ applyErr' = [host |-> CurHost.Alias, step |-> step]
  /\ UNCHANGED <<hostIdx, mountIdx>>

\* applyHost returned nil: next iteration of the loop over cfg.Hosts
NextHost ==
  IF hostIdx < Len(cfgD)
    THEN /\ applyPc' = "connect"
         /\ hostIdx' = hostIdx + 1
         /\ mountIdx' = 1
         /\ UNCHANGED applyErr
    ELSE /\ applyPc' = "idle"
         /\ UNCHANGED <<hostIdx, mountIdx, applyErr>>

\* end of one iteration of the loop over host.Mounts
NextMount ==
  IF mountIdx < Len(CurHost.Mounts)
    THEN /\ applyPc' = "mountUnit"
         /\ mountIdx' = mountIdx + 1
         /\ UNCHANGED <<hostIdx, applyErr>>
    ELSE /\ applyPc' = "hostEnd"
         /\ UNCHANGED <<hostIdx, mountIdx, applyErr>>

FreshRemote == [a \in Aliases |-> [bin |-> FALSE, service |-> NoFile, exports |-> NoFile]]
StaleRemote == [a \in Aliases |-> [bin |-> TRUE, service |-> Stale, exports |-> Stale]]

ApplyInit ==
  /\ cfgD \in Configs
  /\ optsD = [DryRun |-> FALSE, WatcherDryRun |-> FALSE]
  /\ run = 0
  /\ applyPc = "idle"
  /\ hostIdx = 1
  /\ mountIdx = 1
  /\ serviceChanged = FALSE
  /\ unitChanged = FALSE
  /\ anyHostChange = FALSE
  /\ \/ /\ remote = FreshRemote
        /\ localFiles = [f \in UnitFiles |-> NoFile]
     \/ /\ remote = StaleRemote
        /\ localFiles = [f \in UnitFiles |-> Stale]
  /\ opLog = <<>>
  /\ applyErr = NoErr
  /\ prevRun = [ran |-> FALSE, ok |-> FALSE, dry |-> FALSE,
                fresh |-> (remote = FreshRemote)]

\* Apply(cfg, opts) is called
ApplyStart ==
  /\ applyPc = "idle"
  /\ run < MaxRuns
  /\ run' = run + 1
  /\ optsD' \in [DryRun : BOOLEAN, WatcherDryRun : BOOLEAN]
  /\ prevRun' = [ran |-> run > 0, ok |-> (run > 0 /\ applyErr = NoErr),
                 dry |-> optsD.DryRun, fresh |-> (run = 0 /\ prevRun.fresh)]
  /\ applyPc' = "connect"
  /\ hostIdx' = 1
  /\ mountIdx' = 1
  /\ applyErr' = NoErr
  /\ opLog' = <<>>
  /\ serviceChanged' = FALSE
  /\ unitChanged' = FALSE
  /\ anyHostChange' = FALSE
  /\ UNCHANGED <<cfgD, remote, localFiles>>
  /\ UNCHANGED wvars
  /\ UNCHANGED xvars

\* 1. sshutil.NewClient + Connect
Connect ==
  /\ applyPc = "connect"
  /\ \E ok \in BOOLEAN :
       IF ok THEN Goto("probe") /\ opLog' = Logged("connect", CurHost.Alias, FALSE)
       ELSE ApplyReturnsError("connect") /\ UNCHANGED opLog
  /\ serviceChanged' = FALSE
  /\ unitChanged' = FALSE
  /\ anyHostChange' = FALSE
  /\ UNCHANGED <<cfgD, optsD, run, remote, localFiles, prevRun>>
  /\ UNCHANGED wvars
  /\ UNCHANGED xvars

\* 2. discover.Probe
Probe ==
  /\ applyPc = "probe"
  /\ \E ok \in BOOLEAN :
       IF ok THEN Goto("build") /\ opLog' = Logged("probe", CurHost.Alias, FALSE)
       ELSE ApplyReturnsError("probe") /\ UNCHANGED opLog
  /\ UNCHANGED <<cfgD, optsD, run, serviceChanged, unitChanged, anyHostChange,
                 remote, localFiles, prevRun>>
  /\ UNCHANGED wvars
  /\ UNCHANGED xvars

\* 3. d.builder.Build, then 5. the dry-run test and the two remoteHasChange calls
Build ==
  /\ applyPc = "build"
  /\ \E ok \in BOOLEAN :
       IF ~ok THEN
         /\ ApplyReturnsError("build")
         /\ UNCHANGED <<opLog, serviceChanged>>
       ELSE IF SkipsMutation(optsD.DryRun) THEN
         /\ Goto("mountUnit")
         /\ opLog' = Logged("build", CurHost.Alias, FALSE)
         /\ UNCHANGED serviceChanged
       ELSE
         LET svc == remote[CurHost.Alias].service
             exp == remote[CurHost.Alias].exports
             newSvc == ServiceContentOf(CurHost, optsD)
             newExp == ExportsContentOf(CurHost)
         IN
         /\ Goto("scpBinary")
         /\ serviceChanged' = remoteHasChange(svc, newSvc)
         /\ opLog' = Logged("build", CurHost.Alias, FALSE)
              \o << Op("cat", "service", svc = newSvc,
                       Reported(remoteHasChange(svc, newSvc))),
                    Op("cat", "exports", exp = newExp,
                       Reported(remoteHasChange(exp, newExp))) >>
  /\ UNCHANGED <<cfgD, optsD, run, unitChanged, anyHostChange, remote,
                 localFiles, prevRun>>
  /\ UNCHANGED wvars
  /\ UNCHANGED xvars

ScpNextSkipsExports(pc) ==
  CASE pc = "scpBinary" -> "scpService"
    [] pc = "scpService" -> "install"
    [] pc = "scpExports" -> "install"

ScpNext(pc) ==
  CASE pc = "scpBinary" -> "scpService"
    [] pc = "scpService" -> "scpExports"
    [] pc = "scpExports" -> "install"

\* client.Scp(tmpBin, "/tmp/autonfs") and the two writeToRemoteTmp calls
Scp ==
  /\ applyPc \in {"scpBinary", "scpService", "scpExports"}
  /\ \E ok \in BOOLEAN :
       IF ok THEN Goto(ScpNext(applyPc)) /\ opLog' = Logged("scp", applyPc, FALSE)
       ELSE ApplyReturnsError(applyPc) /\ UNCHANGED opLog
  /\ UNCHANGED <<cfgD, optsD, run, serviceChanged, unitChanged, anyHostChange,
                 remote, localFiles, prevRun>>
  /\ UNCHANGED wvars
  /\ UNCHANGED xvars

\* client.RunTerminal("sudo bash -c 'set -e; ...'"); failAt = 0 when every
\* command succeeds, otherwise the index of the command that fails
Install ==
  /\ applyPc = "install"
  /\ LET cmds == InstallCmds(serviceChanged)
         newSvc == ServiceContentOf(CurHost, optsD)
         newExp == ExportsContentOf(CurHost)
         old == remote[CurHost.Alias]
     IN
     \E failAt \in 0..Len(cmds) :
       IF failAt = 0 THEN
         /\ Goto("mountUnit")
         /\ remote' = [remote EXCEPT ![CurHost.Alias] =
                         AfterInstall(old, Len(cmds), newSvc, newExp)]
         /\ opLog' = Append(opLog, Op("install", "ok", serviceChanged, cmds))
       ELSE
         /\ ApplyReturnsError("install")
         /\ remote' = [remote EXCEPT ![CurHost.Alias] =
                         AfterInstall(old, failAt - 1, newSvc, newExp)]
         /\ opLog' = Append(opLog, Op("install", "failed", serviceChanged,
                                      SubSeq(cmds, 1, failAt - 1)))
  /\ UNCHANGED <<cfgD, optsD, run, serviceChanged, unitChanged, anyHostChange,
                 localFiles, prevRun>>
  /\ UNCHANGED wvars
  /\ UNCHANGED xvars

\* one "Check & Write" block of the loop over host.Mounts
WriteUnit(file, content, nextPc, resetUnitChanged) ==
  LET existing == localFiles[file]
      changed == hasChange(existing, content)
      before == IF resetUnitChanged THEN FALSE ELSE unitChanged
      readOp == FileOp("readfile", file, existing = content, <<>>)
  IN
  IF ~changed THEN
    /\ Goto(nextPc)
    /\ opLog' = Append(opLog, readOp)
    /\ unitChanged' = before
    /\ UNCHANGED <<anyHostChange, localFiles>>
  ELSE IF SkipsMutation(optsD.DryRun) THEN
    /\ Goto(nextPc)
    /\ opLog' = Append(opLog, readOp)
    /\ unitChanged' = TRUE
    /\ anyHostChange' = TRUE
    /\ UNCHANGED localFiles
  ELSE
    \E ok \in BOOLEAN :
      IF ok THEN
        /\ Goto(nextPc)
        /\ opLog' = opLog \o <<readOp, FileOp("mv", file, FALSE, content)>>
        /\ localFiles' = [localFiles EXCEPT ![file] = content]
        /\ unitChanged' = TRUE
        /\ anyHostChange' = TRUE
      ELSE
        /\ ApplyReturnsError("mv")
        /\ opLog' = Append(opLog, readOp)
        /\ unitChanged' = before
        /\ UNCHANGED <<anyHostChange, localFiles>>

\* Check & Write Mount Unit
MountUnit ==
  /\ applyPc = "mountUnit"
  /\ WriteUnit(MountFile, MountContentOf(CurHost, CurMount), "automountUnit", TRUE)
  /\ UNCHANGED <<cfgD, optsD, run, serviceChanged, remote, prevRun>>
  /\ UNCHANGED wvars
  /\ UNCHANGED xvars

\* Check & Write Automount Unit
AutomountUnitStep ==
  /\ applyPc = "automountUnit"
  /\ WriteUnit(AutomountFile, AutomountContentOf(CurHost, CurMount), "enable", FALSE)
  /\ UNCHANGED <<cfgD, optsD, run, serviceChanged, remote, prevRun>>
  /\ UNCHANGED wvars
  /\ UNCHANGED xvars

\* Always ensure enabled
Enable ==
  /\ applyPc = "enable"
  /\ IF SkipsMutation(optsD.DryRun) THEN
       /\ (IF unitChanged THEN Goto("restart") ELSE NextMount)
       /\ UNCHANGED opLog
     ELSE
       \E ok \in BOOLEAN :
         IF ok THEN
           /\ (IF unitChanged THEN Goto("restart") ELSE NextMount)
           /\ opLog' = Logged("enable", AutomountUnit, FALSE)
         ELSE
           /\ ApplyReturnsError("enable")
           /\ UNCHANGED opLog
  /\ UNCHANGED <<cfgD, optsD, run, serviceChanged, unitChanged, anyHostChange,
                 remote, localFiles, prevRun>>
  /\ UNCHANGED wvars
  /\ UNCHANGED xvars

RestartWithoutReload(reloadFailed) ==
  << Op("restart", AutomountUnit, FALSE, <<>>) >>

\* the two commands of `if unitChanged`, as logged when the restart succeeds
RestartOps(reloadFailed) ==
  << Op("daemon-reload", "mount", reloadFailed, <<>>),
     Op("restart", AutomountUnit, FALSE, <<>>) >>

\* Restart only if changed: daemon-reload, whose result is discarded, then
\* restart; the flag of a logged daemon-reload tells that the command failed
Restart ==
  /\ applyPc = "restart"
  /\ IF SkipsMutation(optsD.DryRun) THEN
       /\ NextMount
       /\ UNCHANGED opLog
     ELSE
       \E ok \in BOOLEAN, reloadFailed \in BOOLEAN :
         IF ok THEN
           /\ NextMount
           /\ opLog' = opLog \o RestartOps(reloadFailed)
         ELSE
           /\ ApplyReturnsError("restart")
           /\ opLog' = Logged("daemon-reload", "mount", reloadFailed)
  /\ UNCHANGED <<cfgD, optsD, run, serviceChanged, unitChanged, anyHostChange,
                 remote, localFiles, prevRun>>
  /\ UNCHANGED wvars
  /\ UNCHANGED xvars

ReloadAfterLoopAlways(anyChange) == TRUE

\* if anyHostChange: the test that guards the daemon-reload after the loop
ReloadAfterLoop(anyChange) == anyChange

\* if anyHostChange { daemon-reload, result discarded }; return nil
HostEnd ==
  /\ applyPc = "hostEnd"
  /\ NextHost
  /\ IF ReloadAfterLoop(anyHostChange) /\ ~SkipsMutation(optsD.DryRun)
       THEN \E reloadFailed \in BOOLEAN :
              opLog' = Logged("daemon-reload", "host", reloadFailed)
       ELSE UNCHANGED opLog
  /\ UNCHANGED <<cfgD, optsD, run, serviceChanged, unitChanged, anyHostChange,
                 remote, localFiles, prevRun>>
  /\ UNCHANGED wvars
  /\ UNCHANGED xvars

ApplyNext ==
  \/ ApplyStart
  \/ Connect
  \/ Probe
  \/ Build
  \/ Scp
  \/ Install
  \/ MountUnit
  \/ AutomountUnitStep
  \/ Enable
  \/ Restart
  \/ HostEnd

\* no Apply is ever started
ApplyParked ==
  /\ cfgD = <<HostOf("h1", "", <<MountA1>>)>>
  /\ optsD = [DryRun |-> FALSE, WatcherDryRun |-> FALSE]
  /\ run = MaxRuns
  /\ applyPc = "idle"
  /\ hostIdx = 1
  /\ mountIdx = 1
  /\ serviceChanged = FALSE
  /\ unitChanged = FALSE
  /\ anyHostChange = FALSE
  /\ remote = FreshRemote
  /\ localFiles = [f \in UnitFiles |-> NoFile]
  /\ opLog = <<>>
  /\ applyErr = NoErr
  /\ prevRun = [ran |-> FALSE, ok |-> FALSE, dry |-> FALSE, fresh |-> TRUE]

(***************************************************************************)
(* Deployer.Run, the legacy deploy path.                                   *)
(***************************************************************************)
\* type Options, on the values the deployer section works with
LegacyOptions ==
  [SSHAlias : Aliases, LocalDir : {"/mnt/a", "/mnt/b"}, RemoteDir : {"/r1", "/r2"},
   IdleTimeout : {"", "30m"}, WakeTimeout : {"", "60s"},
   LoadThreshold : {"0.5", "0.8"}, DryRun : BOOLEAN, WatcherDryRun : BOOLEAN]

\* cfg := &config.Config{Hosts: ...} of Run
SynthesizedConfig(opts) ==
  << [Alias |-> opts.SSHAlias,
      IdleTimeout |-> opts.IdleTimeout,
      WakeTimeout |-> opts.WakeTimeout,
      Mounts |-> << [Local |-> opts.LocalDir, Remote |-> opts.RemoteDir] >>] >>

\* applyOpts := ApplyOptions{...} of Run
SynthesizedApplyOptions(opts) ==
  [DryRun |-> opts.DryRun, WatcherDryRun |-> opts.WatcherDryRun]

RunInit ==
  /\ legacyOpts \in LegacyOptions
  /\ legacyPc = "sudo"
  /\ sudoCheck = "none"
  /\ cfgD = <<>>
  /\ optsD = [DryRun |-> FALSE, WatcherDryRun |-> FALSE]
  /\ run = 0
  /\ applyPc = "idle"
  /\ hostIdx = 1
  /\ mountIdx = 1
  /\ serviceChanged = FALSE
  /\ unitChanged = FALSE
  /\ anyHostChange = FALSE
  /\ \/ /\ remote = FreshRemote
        /\ localFiles = [f \in UnitFiles |-> NoFile]
     \/ /\ remote = StaleRemote
        /\ localFiles = [f \in UnitFiles |-> Stale]
  /\ opLog = <<>>
  /\ applyErr = NoErr
  /\ prevRun = [ran |-> FALSE, ok |-> FALSE, dry |-> FALSE,
                fresh |-> (remote = FreshRemote)]

\* SUDO Check (Legacy): `sudo -v` unless dry-run; a failure is only warned of
RunSudoCheck ==
  /\ legacyPc = "sudo"
  /\ legacyPc' = "delegate"
  /\ IF legacyOpts.DryRun
       THEN sudoCheck' = "skipped"
       ELSE \E ok \in BOOLEAN : sudoCheck' = IF ok THEN "ok" ELSE "warned"
  /\ UNCHANGED legacyOpts
  /\ UNCHANGED <<wvars, dvars, uvars, kvars, pvars, cvars>>

\* return d.Apply(cfg, applyOpts)
RunDelegate ==
  /\ legacyPc = "delegate"
  /\ applyPc = "idle"
  /\ legacyPc' = "applied"
  /\ cfgD' = SynthesizedConfig(legacyOpts)
  /\ optsD' = SynthesizedApplyOptions(legacyOpts)
  /\ run' = run + 1
  /\ prevRun' = [ran |-> run > 0, ok |-> (run > 0 /\ applyErr = NoErr),
                 dry |-> optsD.DryRun, fresh |-> (run = 0 /\ prevRun.fresh)]
  /\ applyPc' = "connect"
  /\ hostIdx' = 1
  /\ mountIdx' = 1
  /\ applyErr' = NoErr
  /\ opLog' = <<>>
  /\ serviceChanged' = FALSE
  /\ unitChanged' = FALSE
  /\ anyHostChange' = FALSE
  /\ UNCHANGED <<remote, localFiles>>
  /\ UNCHANGED <<legacyOpts, sudoCheck>>
  /\ UNCHANGED <<wvars, uvars, kvars, pvars, cvars>>

RunNext ==
  \/ RunSudoCheck
  \/ RunDelegate
  \/ Connect
  \/ Probe
  \/ Build
  \/ Scp
  \/ Install
  \/ MountUnit
  \/ AutomountUnitStep
  \/ Enable
  \/ Restart
  \/ HostEnd

\* Run is never called
LegacyParked ==
  /\ legacyOpts = [SSHAlias |-> "h1", LocalDir |-> "/mnt/a", RemoteDir |-> "/r1",
                   IdleTimeout |-> "", WakeTimeout |-> "", LoadThreshold |-> "0.5",
                   DryRun |-> FALSE, WatcherDryRun |-> FALSE]
  /\ legacyPc = "applied"
  /\ sudoCheck = "none"

\* Watch is never started
WatchParked ==
  /\ watchPc = "returned"
  /\ ctxDone = TRUE
  /\ cfgW = [IdleTimeout |-> 1, LoadThreshold |-> 1, DryRun |-> TRUE]
  /\ now = 0
  /\ idleStart = 0
  /\ lastOps = 0
  /\ shutdownInvoked = FALSE
  /\ tk = NoTick
  /\ lastActiveAt = -1
  /\ clientlessTick = FALSE
  /\ wouldAt = <<-1, -1>>
  /\ shutdownFailed = FALSE
  /\ sampled = FALSE
  /\ rpcFailedLast = FALSE

(***************************************************************************)
(* RunUndeploy and Client.RunTerminal.                                     *)
(***************************************************************************)
\* the local commands of RunUndeploy, in order; each result is discarded
LocalCleanup ==
  << "sudo -v",
     "systemctl disable --now automount",
     "systemctl stop mount",
     "systemctl disable mount",
     "rm -f mountFile",
     "rm -f automountFile",
     "systemctl daemon-reload" >>

\* cleanupCmds, joined with " && " into one sudo bash -c command
RemoteCleanup ==
  << "systemctl disable --now autonfs-watcher.service",
     "rm -f /etc/systemd/system/autonfs-watcher.service",
     "rm -f /etc/exports.d/autonfs.exports",
     "systemctl daemon-reload",
     "exportfs -r" >>

\* one attempted command; where is "local" or "remote"
Attempt(where, cmd, ok) == [where |-> where, cmd |-> cmd, ok |-> ok]

\* what bash attempts of c1 && c2 && ... when command failAt fails (0: none
\* fails): the commands up to the failing one
RECURSIVE AndChain(_, _, _)
AndChain(cmds, k, failAt) ==
  IF k > Len(cmds) THEN <<>>
  ELSE IF k = failAt THEN <<Attempt("remote", cmds[k], FALSE)>>
  ELSE <<Attempt("remote", cmds[k], TRUE)>> \o AndChain(cmds, k + 1, failAt)

UndeployInit ==
  /\ undPc = "local"
  /\ undOpts \in [LocalDir : {"/mnt/a", "/mnt/b"}, SSHAlias : {"", "h1"}]
  /\ undStep = 1
  /\ undLog = <<>>
  /\ undErr = ""
  /\ termRaw = FALSE

\* return from RunUndeploy
UndReturn(err) ==
  /\ undPc' = "returned"
  /\ undErr' = err

\* exec.Command(...).Run() of the next local command, result discarded
LocalStep ==
  /\ undPc = "local"
  /\ \E ok \in BOOLEAN :
       undLog' = Append(undLog, Attempt("local", LocalCleanup[undStep], ok))
  /\ IF undStep < Len(LocalCleanup)
       THEN /\ undStep' = undStep + 1
            /\ UNCHANGED <<undPc, undErr>>
       ELSE /\ UNCHANGED undStep
            /\ IF undOpts.SSHAlias # ""
                 THEN undPc' = "connect" /\ UNCHANGED undErr
                 ELSE UndReturn("")
  /\ UNCHANGED <<undOpts, termRaw>>
  /\ UNCHANGED <<wvars, dvars, kvars, pvars, cvars, rvars>>

\* sshutil.NewClient(opts.SSHAlias) and client.Connect()
UndConnect ==
  /\ undPc = "connect"
  /\ \E ok \in BOOLEAN :
       IF ok THEN undPc' = "session" /\ UNCHANGED undErr
       ELSE UndReturn("SSH connection failed")
  /\ UNCHANGED <<undOpts, undStep, undLog, termRaw>>
  /\ UNCHANGED <<wvars, dvars, kvars, pvars, cvars, rvars>>

\* RunTerminal: c.conn.NewSession()
TermSession ==
  /\ undPc = "session"
  /\ \E ok \in BOOLEAN :
       IF ok THEN undPc' = "pty" /\ UNCHANGED undErr
       ELSE UndReturn("remote cleanup failed")
  /\ UNCHANGED <<undOpts, undStep, undLog, termRaw>>
  /\ UNCHANGED <<wvars, dvars, kvars, pvars, cvars, rvars>>

\* RunTerminal: session.RequestPty; the session is closed on return
TermPty ==
  /\ undPc = "pty"
  /\ \E ok \in BOOLEAN :
       IF ok THEN undPc' = "raw" /\ UNCHANGED undErr
       ELSE UndReturn("remote cleanup failed")
  /\ UNCHANGED <<undOpts, undStep, undLog, termRaw>>
  /\ UNCHANGED <<wvars, dvars, kvars, pvars, cvars, rvars>>

\* RunTerminal: if term.IsTerminal(fd) { term.MakeRaw(fd); defer term.Restore }
TermMakeRaw ==
  /\ undPc = "raw"
  /\ \E isTerminal \in BOOLEAN, ok \in BOOLEAN :
       IF ~isTerminal THEN
         /\ undPc' = "run"
         /\ UNCHANGED <<undErr, termRaw>>
       ELSE IF ok THEN
         /\ undPc' = "run"
         /\ termRaw' = TRUE
         /\ UNCHANGED undErr
       ELSE
         /\ UndReturn("remote cleanup failed")
         /\ UNCHANGED termRaw
  /\ UNCHANGED <<undOpts, undStep, undLog>>
  /\ UNCHANGED <<wvars, dvars, kvars, pvars, cvars, rvars>>

\* RunTerminal: session.Run(cmd), then the return of RunTerminal, which runs
\* the deferred term.Restore, and the return of RunUndeploy
TermRun ==
  /\ undPc = "run"
  /\ \E failAt \in 0..Len(RemoteCleanup) :
       /\ undLog' = undLog \o AndChain(RemoteCleanup, 1, failAt)
       /\ UndReturn(IF failAt = 0 THEN "" ELSE "remote cleanup failed")
  /\ termRaw' = FALSE
  /\ UNCHANGED <<undOpts, undStep>>
  /\ UNCHANGED <<wvars, dvars, kvars, pvars, cvars, rvars>>

\* a signal (SIGINT, SIGTERM, SIGHUP from outside) arrives: no handler is
\* installed, the process ends at once and no deferred call runs
UndSignal ==
  /\ undPc \notin {"returned", "killed"}
  /\ undPc' = "killed"
  /\ UNCHANGED <<undOpts, undStep, undLog, undErr, termRaw>>
  /\ UNCHANGED <<wvars, dvars, kvars, pvars, cvars, rvars>>

UndeployNext ==
  \/ LocalStep
  \/ UndConnect
  \/ TermSession
  \/ TermPty
  \/ TermMakeRaw
  \/ TermRun
  \/ UndSignal

\* RunUndeploy is never called
UndeployParked ==
  /\ undPc = "returned"
  /\ undOpts = [LocalDir |-> "/mnt/a", SSHAlias |-> ""]
  /\ undStep = 1
  /\ undLog = <<>>
  /\ undErr = ""
  /\ termRaw = FALSE

(***************************************************************************)
(* discover.parseNetworkInfo, the parser of the probe's "iface|ip|mac".     *)
(***************************************************************************)
MaxRawLen == 6         \* raw has at most this many characters

\* the characters raw is made of: a letter, the separator, a newline
ProbeChars == {"e", "|", "\n"}

\* strings.Split(s, "|")
RECURSIVE Split(_)
Split(s) ==
  IF \A k \in 1..Len(s) : s[k] # "|" THEN <<s>>
  ELSE LET i == CHOOSE k \in 1..Len(s) :
                  s[k] = "|" /\ \A j \in 1..(k - 1) : s[j] # "|"
       IN <<SubSeq(s, 1, i - 1)>> \o Split(SubSeq(s, i + 1, Len(s)))

InvalidFormatFewer(parts) == Len(parts) < 3

\* if len(parts) != 3
InvalidFormat(parts) == Len(parts) # 3

\* parseNetworkInfo
parseNetworkInfo(raw) ==
  LET parts == Split(TrimSpace(raw)) IN
  IF InvalidFormat(parts)
    THEN [err |-> TRUE, iface |-> <<>>, ip |-> <<>>, mac |-> <<>>]
    ELSE [err |-> FALSE, iface |-> parts[1], ip |-> parts[2], mac |-> parts[3]]

NoProbeOut == [err |-> FALSE, iface |-> <<>>, ip |-> <<>>, mac |-> <<>>]

ProbeInit ==
  /\ probePc = "call"
  /\ probeRaw \in SeqsUpTo(ProbeChars, MaxRawLen)
  /\ probeOut = NoProbeOut

\* iface, ip, mac, err := parseNetworkInfo(netOut)
ParseProbe ==
  /\ probePc = "call"
  /\ probeOut' = parseNetworkInfo(probeRaw)
  /\ probePc' = "done"
  /\ UNCHANGED probeRaw
  /\ UNCHANGED <<wvars, dvars, uvars, kvars, cvars, rvars>>

\* the parser is never called
ProbeParked ==
  /\ probePc = "done"
  /\ probeRaw = <<>>
  /\ probeOut = NoProbeOut

(***************************************************************************)
(* config.ParseConfig and Config.Validate.                                 *)
(***************************************************************************)
MaxConfHosts == 2      \* data holds at most this many hosts
MaxConfMounts == 2     \* a host holds at most this many mounts
MaxDurLen == 2         \* a duration text has at most this many characters

\* the characters a duration text is made of: a digit and two unit letters
DurChars == {"5", "m", "s"}
DurDigits == {"5"}
\* time.unitMap, as far as it can be written with DurChars
UnitMap == {<<"s">>, <<"m">>, <<"m", "s">>}

\* the number of leading characters of s that are digits (digits = TRUE) or are
\* no digits (digits = FALSE)
RECURSIVE Run(_, _)
Run(s, digits) ==
  IF s # <<>> /\ ((Head(s) \in DurDigits) = digits) THEN 1 + Run(Tail(s), digits) ELSE 0

\* time.ParseDuration: fails on the empty text, and on a text that is not a
\* sequence of groups made of digits and a unit of unitMap
RECURSIVE DurationGroups(_)
DurationGroups(s) ==
  IF s = <<>> THEN TRUE
  ELSE LET d == Run(s, TRUE)
           rest == SubSeq(s, d + 1, Len(s))
           u == Run(rest, FALSE)
       IN /\ d > 0
          /\ u > 0
          /\ SubSeq(rest, 1, u) \in UnitMap
          /\ DurationGroups(SubSeq(rest, u + 1, Len(rest)))

ParseDurationFails(s) == s = <<>> \/ ~DurationGroups(s)

MissingRemoteIgnored(m) == FALSE

\* if m.Remote == ""
MissingRemote(m) == m.Remote = ""

\* the checks of one mount, "" when it passes
RECURSIVE ValidateMounts(_)
ValidateMounts(mounts) ==
  IF mounts = <<>> THEN ""
  ELSE IF Head(mounts).Local = "" THEN "missing local path"
  ELSE IF MissingRemote(Head(mounts)) THEN "missing remote path"
  ELSE ValidateMounts(Tail(mounts))

\* the body of the loop over c.Hosts, "" when the host passes
ValidateHost(host) ==
  IF host.Alias = "" THEN "missing alias"
  ELSE IF Len(host.Mounts) = 0 THEN "no mounts defined"
  ELSE IF ValidateMounts(host.Mounts) # "" THEN ValidateMounts(host.Mounts)
  ELSE IF host.IdleTimeout # <<>> /\ ParseDurationFails(host.IdleTimeout)
    THEN "invalid idle_timeout"
  ELSE IF host.WakeTimeout # <<>> /\ ParseDurationFails(host.WakeTimeout)
    THEN "invalid wake_timeout"
  ELSE ""

RECURSIVE ValidateHosts(_)
ValidateHosts(hosts) ==
  IF hosts = <<>> THEN ""
  ELSE IF ValidateHost(Head(hosts)) # "" THEN ValidateHost(Head(hosts))
  ELSE ValidateHosts(Tail(hosts))

\* Config.Validate: the first error found, "" for nil
Validate(c) ==
  IF Len(c.Hosts) = 0 THEN "no hosts defined in config"
  ELSE ValidateHosts(c.Hosts)

\* ParseConfig
ParseConfig(data) ==
  IF ~data.wellFormed
    THEN [err |-> "failed to parse config", nil |-> TRUE, Hosts |-> <<>>]
  ELSE IF Validate([Hosts |-> data.Hosts]) # ""
    THEN [err |-> Validate([Hosts |-> data.Hosts]), nil |-> TRUE, Hosts |-> <<>>]
  ELSE [err |-> "", nil |-> FALSE, Hosts |-> data.Hosts]

\* ---- the data ParseConfig is called with ----
ConfMounts ==
  {[Local |-> "/mnt/a", Remote |-> "/srv/a"], [Local |-> "", Remote |-> "/srv/a"],
   [Local |-> "/mnt/a", Remote |-> ""]}
DurTexts == SeqsUpTo(DurChars, MaxDurLen)
WakeTexts == {<<>>, <<"5", "m">>, <<"5">>, <<"m", "s">>}
ConfHosts ==
  [Alias : {"", "nas"}, Mounts : SeqsUpTo(ConfMounts, MaxConfMounts),
   IdleTimeout : DurTexts, WakeTimeout : WakeTexts]
GoodHost ==
  [Alias |-> "nas", Mounts |-> <<[Local |-> "/mnt/a", Remote |-> "/srv/a"]>>,
   IdleTimeout |-> <<"5", "m">>, WakeTimeout |-> <<>>]
NoMountHost == [GoodHost EXCEPT !.Mounts = <<>>]

\* lists of hosts in which one host is any host and the others are GoodHost
\* or NoMountHost
OtherHosts == SeqsUpTo({GoodHost, NoMountHost}, MaxConfHosts - 1)

NoConfOut == [err |-> "", nil |-> TRUE, Hosts |-> <<>>]

\* data is malformed, or holds no host, or holds the hosts before, h, after
ConfInit ==
  /\ confPc = "call"
  /\ \E wf, empty \in BOOLEAN : \E h \in ConfHosts : \E before, after \in OtherHosts :
       /\ Len(before) + Len(after) < MaxConfHosts
       /\ confData = [wellFormed |-> wf,
                      Hosts |-> IF ~wf \/ empty THEN <<>>
                                ELSE before \o <<h>> \o after]
  /\ confOut = NoConfOut

\* cfg, err := config.ParseConfig(data)
CallParseConfig ==
  /\ confPc = "call"
  /\ confOut' = ParseConfig(confData)
  /\ confPc' = "done"
  /\ UNCHANGED confData
  /\ UNCHANGED <<wvars, dvars, uvars, kvars, pvars, rvars>>

\* ParseConfig is never called
ConfParked ==
  /\ confPc = "done"
  /\ confData = [wellFormed |-> FALSE, Hosts |-> <<>>]
  /\ confOut = NoConfOut

\* the pure procedures are not running
PureParked == ProbeParked /\ ConfParked /\ LegacyParked

(***************************************************************************)
(* The wake command: wol.NewMagicPacket, MagicPacket.Send, wol.WaitForPort. *)
(***************************************************************************)
TicksPerSecond == 2    \* clock units in one second
MaxWakeTimeout == 5    \* --timeout ranges over 0..MaxWakeTimeout clock units

PacketLen == 102       \* type MagicPacket [102]byte
Repetitions == 16      \* for i := 0; i < 16; i++

\* A MAC address as typed: the sequence of its characters.  A hex digit is
\* coded by its value; 16 codes a character that is neither a hex digit nor a
\* separator, 17 the colon, 18 the dash, 19 the dot.
HexDigits == {1, 15}
HexPairs == HexDigits \X HexDigits
NotHex == 16
Colon == 17
Dash == 18
Dot == 19

\* s[x:]
From(s, x) == SubSeq(s, x + 1, Len(s))

\* net.xtoi2: two hex digits, followed by the character e if anything follows
xtoi2(s, e) ==
  IF Len(s) > 2 /\ s[3] # e THEN [ok |-> FALSE, n |-> 0]
  ELSE IF Len(s) >= 2 /\ s[1] < NotHex /\ s[2] < NotHex
    THEN [ok |-> TRUE, n |-> 16 * s[1] + s[2]]
    ELSE [ok |-> FALSE, n |-> 0]

\* net.ParseMAC: 6, 8 or 20 bytes written as two hex digits each, separated by
\* colons or by dashes, or as four hex digits each pair, separated by dots
ParseMAC(text) ==
  LET bad == [err |-> TRUE, mac |-> <<>>]
      len == Len(text)
  IN
  IF len < 14 THEN bad
  ELSE IF text[3] = Colon \/ text[3] = Dash THEN
    LET n == (len + 1) \div 3
        hw == [i \in 1..n |-> xtoi2(From(text, 3 * (i - 1)), text[3])]
    IN
    IF (len + 1) % 3 # 0 \/ n \notin {6, 8, 20} THEN bad
    ELSE IF \E i \in 1..n : ~hw[i].ok THEN bad
    ELSE [err |-> FALSE, mac |-> [i \in 1..n |-> hw[i].n]]
  ELSE IF text[5] = Dot THEN
    LET n == (2 * (len + 1)) \div 5
        x(i) == 5 * ((i - 1) \div 2)
        hw == [i \in 1..n |->
                 IF i % 2 = 1 THEN xtoi2(SubSeq(text, x(i) + 1, x(i) + 2), 0)
                 ELSE xtoi2(From(text, x(i) + 2), text[5])]
    IN
    IF (len + 1) % 5 # 0 \/ n \notin {6, 8, 20} THEN bad
    ELSE IF \E i \in 1..n : ~hw[i].ok THEN bad
    ELSE [err |-> FALSE, mac |-> [i \in 1..n |-> hw[i].n]]
  ELSE bad

Min(a, b) == IF a < b THEN a ELSE b

\* copy(dst[offset:], src): overwrites min(len(dst) - offset, len(src)) bytes
Copy(dst, offset, src) ==
  LET n == Min(Len(dst) - offset, Len(src)) IN
  [k \in 1..Len(dst) |->
     IF k > offset /\ k <= offset + n THEN src[k - offset] ELSE dst[k]]

OffsetStuck(offset) == offset

\* offset += 6
NextOffset(offset) == offset + 6

\* for i := 0; i < 16; i++ { copy(packet[offset:], mac); offset += 6 }
RECURSIVE Body(_, _, _, _)
Body(pkt, i, offset, mac) ==
  IF i >= Repetitions THEN pkt
  ELSE Body(Copy(pkt, offset, mac), i + 1, NextOffset(offset), mac)

\* wol.NewMagicPacket
NewMagicPacket(macAddr) ==
  LET p == ParseMAC(macAddr)
      zero == [k \in 1..PacketLen |-> 0]
      header == Copy(zero, 0, <<255, 255, 255, 255, 255, 255>>)
  IN
  IF p.err THEN [err |-> TRUE, packet |-> <<>>]
  ELSE [err |-> FALSE, packet |-> Body(header, 0, 6, p.mac)]

\* the groups <<hi, lo>> of g written with the separator sep between them
Separated(g, sep) ==
  [k \in 1..(3 * Len(g) - 1) |->
     IF k % 3 = 0 THEN sep ELSE g[(k + 2) \div 3][IF k % 3 = 1 THEN 1 ELSE 2]]

\* the groups of g written as bare hex digits
Bare(g) == [k \in 1..(2 * Len(g)) |-> g[(k + 1) \div 2][2 - (k % 2)]]

\* the groups of g written four digits at a time with dots between
Dotted(g) ==
  [k \in 1..((5 * Len(g)) \div 2 - 1) |->
     IF k % 5 = 0 THEN Dot
     ELSE g[2 * (k \div 5) + ((k % 5) + 1) \div 2][2 - ((k % 5) % 2)]]

\* the MAC addresses tried with the whole command
WakeMacs ==
  { Separated(<<<<1, 1>>, <<1, 15>>, <<15, 1>>, <<15, 15>>, <<1, 1>>, <<15, 1>>>>, Colon),
    Separated(<<<<1, 1>>, <<1, 15>>, <<15, 1>>, <<15, 15>>, <<1, 1>>>>, Colon),
    Separated(<<<<1, 1>>, <<1, 15>>, <<16, 16>>, <<15, 15>>, <<1, 1>>, <<15, 1>>>>, Colon) }

WakeInitWith(macs) ==
  /\ wakePc = "packet"
  /\ wakeArgs \in [mac : macs, timeout : 0..MaxWakeTimeout]
  /\ packet = <<>>
  /\ sendOk = "none"
  /\ clk = 0
  /\ deadline = 0
  /\ upAt \in -1..(MaxWakeTimeout + 1)
  /\ attempts = 0
  /\ attemptAt = <<-1, -1>>
  /\ waitResult = "running"
  /\ exitCode = -1

WakeInit == WakeInitWith(WakeMacs)

\* os.Exit(code)
Exit(code) ==
  /\ wakePc' = "exited"
  /\ exitCode' = code

\* packet, err := wol.NewMagicPacket(wakeMac); on error os.Exit(1)
WakePacket ==
  /\ wakePc = "packet"
  /\ LET r == NewMagicPacket(wakeArgs.mac) IN
     IF r.err THEN Exit(1) /\ UNCHANGED packet
     ELSE /\ wakePc' = "send"
          /\ packet' = r.packet
          /\ UNCHANGED exitCode
  /\ UNCHANGED <<wakeArgs, sendOk, clk, deadline, upAt, attempts, attemptAt,
                 waitResult>>
  /\ UNCHANGED <<wvars, dvars, uvars, pvars, cvars, rvars>>

\* packet.Send(wakeBcast), whose failure is only logged, then the call of
\* WaitForPort, which fixes deadline
WakeSend ==
  /\ wakePc = "send"
  /\ \E ok \in BOOLEAN : sendOk' = IF ok THEN "ok" ELSE "failed"
  /\ wakePc' = "loop"
  /\ deadline' = clk + wakeArgs.timeout
  /\ UNCHANGED <<wakeArgs, packet, clk, upAt, attempts, attemptAt, waitResult,
                 exitCode>>
  /\ UNCHANGED <<wvars, dvars, uvars, pvars, cvars, rvars>>

\* for time.Now().Before(deadline); after the loop the timeout error, on
\* which the command exits with 1
WaitLoop ==
  /\ wakePc = "loop"
  /\ IF clk < deadline
       THEN /\ wakePc' = "dial"
            /\ UNCHANGED <<waitResult, exitCode>>
       ELSE /\ waitResult' = "timeout"
            /\ Exit(1)
  /\ UNCHANGED <<wakeArgs, packet, sendOk, clk, deadline, upAt, attempts, attemptAt>>
  /\ UNCHANGED <<wvars, dvars, uvars, pvars, cvars, rvars>>

\* net.DialTimeout("tcp", target, 1*time.Second): the attempt takes d clock
\* units; it can succeed, in less than the timeout, when the port accepts
\* connections by the time it ends, and can fail (refused, reset, timed
\* out) when the port did not accept connections when it started
WaitDial ==
  /\ wakePc = "dial"
  /\ attempts' = attempts + 1
  /\ attemptAt' = <<attemptAt[2], clk>>
  /\ \E d \in 0..TicksPerSecond, ok \in BOOLEAN :
       /\ ok => (d < TicksPerSecond /\ upAt # -1 /\ upAt <= clk + d)
       /\ ~ok => (upAt = -1 \/ upAt > clk)
       /\ clk' = clk + d
       /\ IF ok
            THEN /\ waitResult' = "ok"
                 /\ Exit(0)
            ELSE /\ wakePc' = "sleep"
                 /\ UNCHANGED <<waitResult, exitCode>>
  /\ UNCHANGED <<wakeArgs, packet, sendOk, deadline, upAt>>
  /\ UNCHANGED <<wvars, dvars, uvars, pvars, cvars, rvars>>

\* time.Sleep(1 * time.Second)
WaitSleep ==
  /\ wakePc = "sleep"
  /\ clk' = clk + TicksPerSecond
  /\ wakePc' = "loop"
  /\ UNCHANGED <<wakeArgs, packet, sendOk, deadline, upAt, attempts, attemptAt,
                 waitResult, exitCode>>
  /\ UNCHANGED <<wvars, dvars, uvars, pvars, cvars, rvars>>

WakeNext ==
  \/ WakePacket
  \/ WakeSend
  \/ WaitLoop
  \/ WaitDial
  \/ WaitSleep

\* the wake command is never run
WakeParked ==
  /\ wakePc = "exited"
  /\ wakeArgs = [mac |-> <<>>, timeout |-> 0]
  /\ packet = <<>>
  /\ sendOk = "none"
  /\ clk = 0
  /\ deadline = 0
  /\ upAt = -1
  /\ attempts = 0
  /\ attemptAt = <<-1, -1>>
  /\ waitResult = "running"
  /\ exitCode = -1

WakeOnlyInit == WakeInit /\ WatchParked /\ ApplyParked /\ UndeployParked /\ PureParked

WakeSpec == WakeOnlyInit /\ [][WakeNext]_vars

\* ---- NewMagicPacket on its own, over many addresses ----
\* every six-byte address over HexDigits written with colons and with
\* dashes; some written bare, with dots, with one separator of the other kind
\* or with a character that is no hex digit; some of eight, twenty and five
\* bytes
SomeSix == {[k \in 1..6 |-> IF k % 2 = 0 THEN p ELSE q] : p, q \in HexPairs}

PacketMacs ==
  {Separated(g, sep) : g \in [1..6 -> HexPairs], sep \in {Colon, Dash}}
    \cup {Bare(g) : g \in SomeSix}
    \cup {Dotted(g) : g \in SomeSix}
    \cup {[Separated(g, Colon) EXCEPT ![9] = Dash] : g \in SomeSix}
    \cup {[Separated(g, Dash) EXCEPT ![7] = NotHex] : g \in SomeSix}
    \cup {[Dotted(g) EXCEPT ![10] = Colon] : g \in SomeSix}
    \cup {Separated([k \in 1..8 |-> p], sep) : p \in HexPairs, sep \in {Colon, Dash}}
    \cup {Dotted([k \in 1..8 |-> p]) : p \in HexPairs}
    \cup {Separated([k \in 1..20 |-> p], Colon) : p \in HexPairs}
    \cup {Separated([k \in 1..5 |-> p], sep) : p \in HexPairs, sep \in {Colon, Dash}}
    \cup {Bare([k \in 1..5 |-> p]) : p \in HexPairs}
    \cup {<<>>}

PacketInit ==
  /\ wakePc = "packet"
  /\ wakeArgs \in [mac : PacketMacs, timeout : {0}]
  /\ packet = <<>>
  /\ sendOk = "none"
  /\ clk = 0
  /\ deadline = 0
  /\ upAt = -1
  /\ attempts = 0
  /\ attemptAt = <<-1, -1>>
  /\ waitResult = "running"
  /\ exitCode = -1

PacketOnlyInit == PacketInit /\ WatchParked /\ ApplyParked /\ UndeployParked /\ PureParked

PacketSpec == PacketOnlyInit /\ [][WakePacket]_vars

\* the smaller procedures are not running
OthersParked == UndeployParked /\ WakeParked /\ PureParked

UndeployOnlyInit == UndeployInit /\ WatchParked /\ ApplyParked /\ WakeParked /\ PureParked

UndeploySpec == UndeployOnlyInit /\ [][UndeployNext]_vars

\* ---- parseNetworkInfo on its own, over every short raw ----
ProbeOnlyInit ==
  /\ ProbeInit /\ WatchParked /\ ApplyParked /\ UndeployParked /\ WakeParked
  /\ ConfParked /\ LegacyParked

ProbeSpec == ProbeOnlyInit /\ [][ParseProbe]_vars

\* ---- ParseConfig on its own ----
ConfOnlyInit ==
  /\ ConfInit /\ WatchParked /\ ApplyParked /\ UndeployParked /\ WakeParked
  /\ ProbeParked /\ LegacyParked

ConfSpec == ConfOnlyInit /\ [][CallParseConfig]_vars

\* ---- specification of the deployer ----
ApplyOnlyInit == ApplyInit /\ WatchParked /\ OthersParked

ApplySpec == ApplyOnlyInit /\ [][ApplyNext]_vars

RunOnlyInit ==
  /\ RunInit /\ WatchParked /\ UndeployParked /\ WakeParked
  /\ ProbeParked /\ ConfParked

RunSpec == RunOnlyInit /\ [][RunNext]_vars

\* ---- specifications of the watcher ----
WatchOnlyInit == WatchInit /\ ApplyParked /\ OthersParked

WatchSpec == WatchOnlyInit /\ [][WatchNext]_vars

\* the ticker keeps firing while Watch is in its loop, and a tick that has
\* started runs to completion
WatchLiveSpec ==
  WatchOnlyInit /\ [][WatchNext]_vars /\ WF_vars(TickerFires) /\ WF_vars(TickStep)

\* the select takes a case that is ready again and again (it picks among the
\* ready cases at random), and a tick that has started runs to completion
WatchCancelSpec ==
  WatchOnlyInit /\ [][WatchNext]_vars /\ WF_vars(TickStep) /\ SF_vars(Return)

(***************************************************************************)
(* Properties of the watcher.                                              *)
(***************************************************************************)
\* the later of the watcher's start time (0) and the most recent ACTIVE tick
IdleSince == IF lastActiveAt = -1 THEN 0 ELSE lastActiveAt

\* C1: without dry-run, shutdown is invoked at a tick only if that tick is
\* IDLE and more than IdleTimeout has elapsed since idle_since, where
\* idle_since is the start time or the most recent ACTIVE tick; an elapsed
\* time equal to IdleTimeout does not trigger.
C1_ShutdownOnlyAfterIdleTimeout ==
  /\ (~cfgW.DryRun) => idleStart = IdleSince
  /\ (tk.done /\ tk.called) =>
       /\ ~cfgW.DryRun
       /\ ~tk.active
       /\ now - IdleSince > cfgW.IdleTimeout

C1_Witness ==
  tk.done /\ tk.called /\ lastActiveAt > 0 /\ now - lastActiveAt = cfgW.IdleTimeout + 1

\* C2: a tick that finds at least one attached client is ACTIVE, resets
\* idle_since to its own time and does not invoke shutdown; while every tick
\* finds a client, shutdown is never invoked.
C2_ClientsHoldOffShutdown ==
  /\ (tk.done /\ tk.nClients > 0) =>
       (tk.active /\ idleStart = now /\ ~tk.called)
  /\ (~clientlessTick) => ~shutdownInvoked

C2_Witness ==
  /\ tk.done /\ tk.nClients > 0 /\ tk.isLow /\ tk.opsDelta = 0
  /\ tk.elapsed > cfgW.IdleTimeout /\ ~cfgW.DryRun

\* the verdict the specification prescribes for (load1, threshold, clients, delta)
SpecVerdict(load, threshold, nClients, opsDelta) ==
  IF load >= threshold THEN "High Load"
  ELSE IF nClients > 0 THEN "Client Connected"
  ELSE IF opsDelta > 0 THEN "NFS Activity"
  ELSE ""

\* C3: the verdict of every tick is the first match of: load1 >= threshold,
\* client set non-empty, ops delta > 0, otherwise IDLE.
C3_VerdictIsPriorityFunction ==
  tk.done =>
    LET r == SpecVerdict(tk.load, cfgW.LoadThreshold, tk.nClients, tk.opsDelta) IN
    /\ tk.reason = r
    /\ tk.active = (r # "")

\* C4: without dry-run, every IDLE tick at which more than IdleTimeout has
\* elapsed since idle_since invokes shutdown (so the first such tick does),
\* and while ticks keep occurring (no cancellation, the clock horizon leaves
\* room for IdleTimeout to elapse) a tick eventually is ACTIVE or invokes
\* shutdown: if all ticks stay IDLE, shutdown is eventually invoked.
C4_IdleEventuallyShutsDown ==
  /\ [](( /\ tk.done /\ ~cfgW.DryRun /\ ~tk.active
          /\ tk.elapsed > cfgW.IdleTimeout) => tk.called)
  /\ (~cfgW.DryRun /\ ~ctxDone /\ MaxTime - idleStart > cfgW.IdleTimeout)
       ~> (ctxDone \/ (tk.done /\ (tk.active \/ tk.called)))

C4_Witness ==
  /\ tk.done /\ tk.called /\ lastActiveAt = -1
  /\ tk.elapsed > cfgW.IdleTimeout /\ tk.elapsed <= cfgW.IdleTimeout + MaxStep

\* C5: in dry-run mode shutdown is never invoked; an IDLE tick that finds
\* more than IdleTimeout elapsed resets idle_since to its own time, so two
\* such ticks are more than IdleTimeout apart.
C5_DryRunNeverShutsDown ==
  cfgW.DryRun =>
    /\ ~shutdownInvoked
    /\ ~tk.called
    /\ (tk.done /\ ~tk.active /\ tk.elapsed > cfgW.IdleTimeout) => idleStart = now
    /\ (wouldAt[1] >= 0) => wouldAt[2] - wouldAt[1] > cfgW.IdleTimeout

C5_Witness == cfgW.DryRun /\ wouldAt[1] >= 0 /\ tk.done /\ tk.reached

\* C6: a failed signal read never fabricates a verdict: an ACTIVE tick is
\* justified by a signal that was read successfully, a failed directory read
\* counts as zero clients and a failed RPC read as ops delta zero.
C6_FailedReadNeverFabricates ==
  tk.done =>
    /\ tk.dirErr => tk.nClients = 0
    /\ tk.rpcErr => tk.opsDelta = 0
    /\ tk.active =>
         \/ (~tk.loadErr /\ tk.load >= cfgW.LoadThreshold)
         \/ (~tk.dirErr /\ tk.nClients > 0)
         \/ (~tk.rpcErr /\ tk.opsDelta > 0)

(***************************************************************************)
(* Properties of the deployer.                                             *)
(***************************************************************************)
LogIdx == 1..Len(opLog)

RestartWatcher == "systemctl restart autonfs-watcher.service"

Contains(seq, x) == \E k \in 1..Len(seq) : seq[k] = x

\* a run that follows a successful run that was not a dry-run
AfterAppliedRun == prevRun.ran /\ prevRun.ok /\ ~prevRun.dry

\* C7: when the installed watcher unit already holds exactly the rendered
\* content, the remote install command contains no restart of the watcher.
C7_NoRestartWhenServiceUnchanged ==
  \A i, j \in LogIdx :
    ( /\ opLog[i].op = "cat" /\ opLog[i].arg = "service" /\ opLog[i].flag
      /\ opLog[j].op = "install" /\ opLog[j].host = opLog[i].host )
    => ~Contains(opLog[j].cmds, RestartWatcher)

\* the positions <<host, mount>> of the mounts of a configuration
MountsOf(cfg) ==
  UNION {{<<h, m>> : m \in 1..Len(cfg[h].Mounts)} : h \in 1..Len(cfg)}

UnitOf(cfg, hm) == escapeSystemdPath(cfg[hm[1]].Mounts[hm[2]].Local)

\* no two mounts of the configuration are rendered into the same unit files
DistinctUnits(cfg) ==
  \A a, b \in MountsOf(cfg) : a # b => UnitOf(cfg, a) # UnitOf(cfg, b)

NoLocalChangeOps ==
  \A i \in LogIdx : opLog[i].op \notin {"mv", "restart", "daemon-reload"}

\* C8: a second run of the same configuration, the unit files of the first
\* (successful, not dry) run left in place, replaces no local file, restarts
\* no unit and issues no daemon-reload.
C8_SecondRunNoLocalChange ==
  (AfterAppliedRun /\ ~optsD.DryRun) => NoLocalChangeOps

\* the extent of the divergence from C8: when no two mounts map to the same
\* unit name the second run changes nothing locally and enables every mount
SecondRunNoLocalChangeDistinct ==
  (AfterAppliedRun /\ ~optsD.DryRun /\ DistinctUnits(cfgD)) =>
    /\ NoLocalChangeOps
    /\ (applyPc = "idle" /\ applyErr = NoErr) =>
         \A hm \in MountsOf(cfgD) :
           Cardinality({i \in LogIdx : /\ opLog[i].op = "enable"
                                        /\ opLog[i].host = hm[1]
                                        /\ opLog[i].arg = UnitOf(cfgD, hm)}) = 1

\* C9: a dry-run Apply performs no upload, no remote install, no local file
\* replacement and no local systemctl enable, restart or daemon-reload.
C9_DryRunPurity ==
  optsD.DryRun =>
    \A i \in LogIdx :
      opLog[i].op \notin {"scp", "install", "mv", "enable", "restart", "daemon-reload"}

C9_Witness ==
  /\ optsD.DryRun /\ run >= 1 /\ applyPc = "idle" /\ applyErr = NoErr
  /\ Len(cfgD) = 2
  /\ \E i \in LogIdx : opLog[i].op = "readfile" /\ ~opLog[i].flag /\ opLog[i].host = 2

\* the index of the host named by the error of Apply
FailedHost == CHOOSE n \in 1..Len(cfgD) : cfgD[n].Alias = applyErr.host

\* C10: when host N fails, Apply returns an error naming host N, nothing was
\* done for a host after N, and what was installed for the hosts before N
\* and written locally during the run is still in place.
C10_FailureAbortsWithoutRollback ==
  (applyPc = "idle" /\ applyErr # NoErr) =>
    /\ \E n \in 1..Len(cfgD) : cfgD[n].Alias = applyErr.host
    /\ FailedHost = hostIdx
    /\ \A i \in LogIdx : opLog[i].host <= FailedHost
    /\ \A i \in LogIdx :
         (opLog[i].op = "install" /\ opLog[i].arg = "ok") =>
           LET h == cfgD[opLog[i].host] IN
           /\ remote[h.Alias].bin
           /\ remote[h.Alias].service = ServiceContentOf(h, optsD)
           /\ remote[h.Alias].exports = ExportsContentOf(h)
    /\ \A i \in LogIdx :
         ( /\ opLog[i].op = "mv"
           /\ \A j \in LogIdx :
                (j > i /\ opLog[j].op = "mv") =>
                  <<opLog[j].unit, opLog[j].arg>> # <<opLog[i].unit, opLog[i].arg>> )
         => localFiles[<<opLog[i].unit, opLog[i].arg>>] = opLog[i].cmds

C10_Witness ==
  /\ applyPc = "idle" /\ applyErr # NoErr /\ hostIdx = 2 /\ ~optsD.DryRun
  /\ \E i \in LogIdx : opLog[i].op = "mv" /\ opLog[i].host = 1
  /\ \E i \in LogIdx : opLog[i].op = "install" /\ opLog[i].host = 2

\* the logged daemon-reload commands that returned an error
FailedReloads == {i \in LogIdx : opLog[i].op = "daemon-reload" /\ opLog[i].flag}

\* C11: the first error of any step of a host is the error of Apply and no
\* later step of that host runs: a run that has an error has stopped, and a
\* step that failed (here a daemon-reload, the failing step that is logged)
\* is the last operation of the run and is the step the error reports.
C11_FirstErrorPropagated ==
  /\ (applyErr # NoErr) => applyPc = "idle"
  /\ \A i \in FailedReloads :
       /\ i = Len(opLog)
       /\ applyErr # NoErr
       /\ applyErr.step = "daemon-reload"

\* the part of C11 the code keeps: every step other than daemon-reload that
\* fails ends the run at once with that step as the error
OtherErrorsPropagated ==
  (applyErr # NoErr) =>
    /\ applyPc = "idle"
    /\ applyErr.host = CurHost.Alias
    /\ applyErr.step \in {"connect", "probe", "build", "scpBinary", "scpService",
                          "scpExports", "install", "mv", "enable", "restart"}

\* the logged operations of kind op performed for host h
OpsOf(h, op) == {i \in LogIdx : opLog[i].host = h /\ opLog[i].op = op}

\* the operations of the log appear host by host, in list order
HostsInOrder ==
  \A i, j \in LogIdx : i < j => opLog[i].host <= opLog[j].host

\* a run that is not a dry-run has completed without error
AppliedOk == run >= 1 /\ applyPc = "idle" /\ applyErr = NoErr /\ ~optsD.DryRun

\* C12: hosts are processed one at a time in list order; when no step fails
\* every host is processed; on a fresh state each host gets exactly three
\* uploads and one install command, and each mount two unit-file writes.
C12_HostsSequentialAndCounted ==
  /\ HostsInOrder
  /\ \A i \in LogIdx : opLog[i].host <= hostIdx
  /\ AppliedOk =>
       \A h \in 1..Len(cfgD) :
         /\ Cardinality(OpsOf(h, "connect")) = 1
         /\ Cardinality(OpsOf(h, "install")) = 1
  /\ (AppliedOk /\ prevRun.fresh) =>
       \A h \in 1..Len(cfgD) :
         /\ Cardinality(OpsOf(h, "scp")) = 3
         /\ Cardinality(OpsOf(h, "install")) = 1
         /\ Cardinality(OpsOf(h, "mv")) = 2 * Len(cfgD[h].Mounts)

\* the extent of the divergence from C12: the counts hold whenever no two
\* mounts map to the same unit name
HostsCountedDistinct ==
  (AppliedOk /\ prevRun.fresh /\ DistinctUnits(cfgD)) =>
    \A h \in 1..Len(cfgD) :
      /\ Cardinality(OpsOf(h, "scp")) = 3
      /\ Cardinality(OpsOf(h, "install")) = 1
      /\ Cardinality(OpsOf(h, "mv")) = 2 * Len(cfgD[h].Mounts)

\* the ordering part of C12 on its own
HostsSequential ==
  /\ HostsInOrder
  /\ \A i \in LogIdx : opLog[i].host <= hostIdx
  /\ AppliedOk => \A h \in 1..Len(cfgD) : Cardinality(OpsOf(h, "connect")) = 1

\* C13: an error of the shutdown action does not end Watch and does not
\* change idle_since: Watch returns only on cancellation, a tick that called
\* shutdown leaves idleStart where it was, and a tick taken after a failed
\* shutdown is judged by the same rules as any other.
C13_ShutdownFailureKeepsLooping ==
  /\ (watchPc = "returned") => ctxDone
  /\ tk.done => watchPc \in {"select", "returned"}
  /\ (tk.done /\ tk.called) => idleStart = now - tk.elapsed
  /\ (tk.done /\ shutdownFailed) =>
       /\ tk.active = (~tk.isLow \/ tk.nClients > 0 \/ tk.opsDelta > 0)
       /\ tk.called = (~tk.active /\ tk.elapsed > cfgW.IdleTimeout /\ ~cfgW.DryRun)
       /\ tk.active => idleStart = now

C13_Witness ==
  /\ tk.done /\ shutdownFailed /\ ~tk.shutdownErr /\ tk.called
  /\ ~ctxDone /\ watchPc = "select"

\* C14: Watch returns only because the context was cancelled, from the
\* select between ticks and never from inside a tick, whatever reads or
\* shutdown calls failed; once the context is cancelled Watch eventually
\* returns.
C14_ReturnsOnlyOnCancel ==
  /\ [](watchPc = "returned" => ctxDone)
  /\ [][watchPc' = "returned" => (watchPc = "select" /\ ctxDone /\ tk' = tk)]_vars
  /\ ctxDone ~> (watchPc = "returned")

C14_Witness ==
  /\ watchPc = "returned" /\ ctxDone
  /\ tk.done /\ tk.loadErr /\ tk.dirErr /\ tk.rpcErr /\ shutdownFailed

\* the commands of cmds that the log shows as attempted
Attempted(where, cmds) ==
  {k \in 1..Len(cmds) :
     \E i \in 1..Len(undLog) : undLog[i].where = where /\ undLog[i].cmd = cmds[k]}

\* C15: when RunUndeploy has returned, every local cleanup command was
\* attempted; with an alias every remote cleanup command was attempted too,
\* whatever failed before it; without an alias no remote command was.
C15_UndeployBestEffort ==
  (undPc = "returned" /\ undLog # <<>>) =>
    /\ Attempted("local", LocalCleanup) = 1..Len(LocalCleanup)
    /\ (undOpts.SSHAlias # "") => Attempted("remote", RemoteCleanup) = 1..Len(RemoteCleanup)
    /\ (undOpts.SSHAlias = "") => Attempted("remote", RemoteCleanup) = {}

\* the part of C15 the code keeps: the local commands are all attempted
\* whatever fails, and no remote command is attempted without an alias
UndeployLocalBestEffort ==
  (undPc = "returned" /\ undLog # <<>>) =>
    /\ Attempted("local", LocalCleanup) = 1..Len(LocalCleanup)
    /\ (undOpts.SSHAlias = "") => Attempted("remote", RemoteCleanup) = {}

\* C16: once RunTerminal is no longer running, by return or because a signal
\* ended it, the local terminal is not in raw mode.
C16_TerminalRestored ==
  (undPc \in {"returned", "killed"}) => ~termRaw

\* the part of C16 the code keeps: every return of RunTerminal restores
TerminalRestoredOnReturn ==
  (undPc = "returned") => ~termRaw

(***************************************************************************)
(* Properties of the wake command.                                         *)
(***************************************************************************)
WaitReturned == wakePc = "exited" /\ waitResult # "running"

\* C17: when the port accepts connections from a time before the deadline,
\* WaitForPort returns success, no earlier than that time and no later than
\* one poll interval (a second) after it; success is returned only after a
\* connect attempt succeeded.
C17_ListenerFoundWithinPollInterval ==
  /\ (waitResult = "ok") => (attempts >= 1 /\ upAt # -1 /\ upAt <= clk)
  /\ (WaitReturned /\ upAt # -1 /\ upAt < deadline) =>
       /\ waitResult = "ok"
       /\ clk >= upAt
       /\ clk <= upAt + TicksPerSecond

\* the part of C17 the code keeps: success only after a successful connect,
\* never before the port accepts connections
SuccessOnlyAfterConnect ==
  (waitResult = "ok") => (attempts >= 1 /\ upAt # -1 /\ upAt <= clk)

\* C18: while no attempt succeeds, WaitForPort attempts a connect at least
\* once per second, makes at least one attempt, and returns the timeout
\* error only once the deadline has passed.
C18_RetriesEverySecondUntilDeadline ==
  /\ (attemptAt[1] >= 0) => attemptAt[2] - attemptAt[1] <= TicksPerSecond
  /\ (waitResult = "timeout") => (attempts >= 1 /\ clk >= deadline)

\* the part of C18 the code keeps: the timeout error only at or after the
\* deadline, and the loop ends within a sleep and a connect timeout of it
TimeoutOnlyAfterDeadline ==
  /\ (waitResult = "timeout") => clk >= deadline
  /\ (wakePc # "packet" /\ wakePc # "send") => clk <= deadline + 2 * TicksPerSecond

\* C19: the command exits with 0 exactly when the frame was sent and the
\* port became reachable in time, with 1 on a malformed MAC, a failed send
\* or a timeout; the frame is sent before the port is waited for.
C19_WakeExitCode ==
  /\ (attempts >= 1) => sendOk # "none"
  /\ (wakePc = "exited") =>
       /\ exitCode \in {0, 1}
       /\ (exitCode = 0) <=> (sendOk = "ok" /\ waitResult = "ok")

\* the part of C19 the code keeps: exit 1 on a malformed MAC and on a
\* timeout, exit 0 only when the port became reachable
ExitCodeFollowsWait ==
  (wakePc = "exited") =>
    /\ exitCode \in {0, 1}
    /\ (exitCode = 0) <=> (waitResult = "ok")
    /\ ParseMAC(wakeArgs.mac).err => (exitCode = 1 /\ sendOk = "none" /\ attempts = 0)

\* six bytes written with colons or with dashes
WellFormedSix(text) ==
  /\ Len(text) = 17
  /\ text[3] \in {Colon, Dash}
  /\ \A k \in 1..17 : IF k % 3 = 0 THEN text[k] = text[3] ELSE text[k] < NotHex

\* the bytes of such an address
MacBytes(text) == [j \in 1..6 |-> 16 * text[3 * j - 2] + text[3 * j - 1]]

\* C20: for every well-formed six-byte MAC M, NewMagicPacket returns a frame
\* of exactly 102 bytes whose bytes 0..5 are 0xFF and whose bytes
\* 6+6i .. 6+6i+5 equal M for every i in 0..15.
C20_MagicPacketLayout ==
  (wakePc # "packet" /\ WellFormedSix(wakeArgs.mac)) =>
    /\ wakePc = "send"
    /\ Len(packet) = 102
    /\ \A k \in 1..6 : packet[k] = 255
    /\ \A i \in 0..15 : \A j \in 1..6 :
         packet[6 + 6 * i + j] = MacBytes(wakeArgs.mac)[j]

C20_Witness ==
  /\ wakePc = "send" /\ WellFormedSix(wakeArgs.mac)
  /\ packet[97] = 17 /\ packet[98] = 31 /\ packet[99] = 241 /\ packet[102] = 255

(***************************************************************************)
(* Properties of the accepted MAC address forms.                           *)
(***************************************************************************)
\* six bytes written as twelve bare hex digits
BareSix(text) == Len(text) = 12 /\ \A k \in 1..12 : text[k] < NotHex

\* C21: NewMagicPacket accepts a MAC written with colons, with dashes or as
\* bare hex digits, each form denoting exactly six bytes, and returns an error
\* and no frame for every other input.
C21_AcceptedMacForms ==
  (wakePc # "packet") =>
    IF WellFormedSix(wakeArgs.mac) \/ BareSix(wakeArgs.mac)
      THEN wakePc = "send" /\ Len(packet) = PacketLen
      ELSE wakePc = "exited" /\ exitCode = 1 /\ packet = <<>>

\* the part that does hold: six bytes written with colons or with dashes are
\* accepted, a text shorter than fourteen characters is rejected, and a
\* rejected text gives an error and no frame
ColonDashSixAccepted ==
  (wakePc # "packet") =>
    /\ WellFormedSix(wakeArgs.mac) => (wakePc = "send" /\ Len(packet) = PacketLen)
    /\ Len(wakeArgs.mac) < 14 => wakePc = "exited"
    /\ wakePc = "exited" => (exitCode = 1 /\ packet = <<>>)

\* bare hex digits are rejected
BareSixRejected ==
  (wakePc # "packet" /\ BareSix(wakeArgs.mac)) => wakePc = "exited"

\* an address of eight bytes written with colons or with dashes is accepted
\* and given a frame of 102 bytes
EightBytesAccepted ==
  (/\ wakePc # "packet"
   /\ Len(wakeArgs.mac) = 23
   /\ wakeArgs.mac[3] \in {Colon, Dash}
   /\ \A k \in 1..23 : IF k % 3 = 0 THEN wakeArgs.mac[k] = wakeArgs.mac[3]
                                    ELSE wakeArgs.mac[k] < NotHex)
    => (wakePc = "send" /\ Len(packet) = PacketLen)

(***************************************************************************)
(* Properties of the probe parser.                                         *)
(***************************************************************************)
\* raw without its leading and trailing whitespace
Trimmed(s) ==
  LET I == {k \in 1..Len(s) : s[k] \notin White} IN
  IF I = {} THEN <<>>
  ELSE SubSeq(s, CHOOSE k \in I : \A j \in I : k <= j,
                 CHOOSE k \in I : \A j \in I : k >= j)

\* the positions of the separators of s
Bars(s) == {k \in 1..Len(s) : s[k] = "|"}

\* C22: the probe parser returns the triple (iface, ip, mac) for every input
\* that, after trimming surrounding whitespace, consists of exactly three
\* '|'-separated fields, and fails for every other input.
C22_ProbeParserThreeFields ==
  (probePc = "done") =>
    LET t == Trimmed(probeRaw)
        b == Bars(t)
    IN
    IF Cardinality(b) = 2
      THEN LET b1 == CHOOSE k \in b : \A j \in b : k <= j
               b2 == CHOOSE k \in b : \A j \in b : k >= j
           IN /\ ~probeOut.err
              /\ probeOut.iface = SubSeq(t, 1, b1 - 1)
              /\ probeOut.ip = SubSeq(t, b1 + 1, b2 - 1)
              /\ probeOut.mac = SubSeq(t, b2 + 1, Len(t))
      ELSE probeOut.err

\* a raw with a trailing newline was parsed into three non-empty fields
C22_Witness ==
  /\ probePc = "done"
  /\ probeRaw = <<"e", "|", "e", "|", "e", "\n">>
  /\ probeOut = [err |-> FALSE, iface |-> <<"e">>, ip |-> <<"e">>, mac |-> <<"e">>]

(***************************************************************************)
(* Properties of ParseConfig.                                              *)
(***************************************************************************)
\* a duration text: one or more groups of digits followed by a unit
RECURSIVE ValidDuration(_)
ValidDuration(s) ==
  \E d \in 1..Len(s) : \E u \in 1..(Len(s) - d) :
    /\ \A k \in 1..d : s[k] \in DurDigits
    /\ SubSeq(s, d + 1, d + u) \in UnitMap
    /\ \/ d + u = Len(s)
       \/ /\ d + u < Len(s)
          /\ s[d + u + 1] \in DurDigits
          /\ ValidDuration(SubSeq(s, d + u + 1, Len(s)))

\* the data-model invariant of a list of hosts
DataModelInvariant(hosts) ==
  /\ Len(hosts) >= 1
  /\ \A i \in 1..Len(hosts) :
       /\ hosts[i].Alias # ""
       /\ Len(hosts[i].Mounts) >= 1
       /\ \A j \in 1..Len(hosts[i].Mounts) :
            hosts[i].Mounts[j].Local # "" /\ hosts[i].Mounts[j].Remote # ""
       /\ hosts[i].IdleTimeout # <<>> => ValidDuration(hosts[i].IdleTimeout)
       /\ hosts[i].WakeTimeout # <<>> => ValidDuration(hosts[i].WakeTimeout)

ValidConfigReturned ==
  (confPc = "done" /\ confData.wellFormed /\ DataModelInvariant(confData.Hosts)) =>
    (confOut.err = "" /\ ~confOut.nil /\ confOut.Hosts = confData.Hosts)

(***************************************************************************)
(* Properties of the ops delta.                                            *)
(***************************************************************************)
\* C24: the ops delta of a tick is zero on the first successful RPC-stats
\* read and equals current - last on every later successful read, where last
\* is the total of the previous successful read, whatever that total was
\* (a genuine total of zero included).
C24_DeltaAgainstPreviousSample ==
  (tk.done /\ ~tk.rpcErr) =>
    tk.opsDelta = IF tk.hadSample THEN (tk.currOps - tk.prevOps) % OpsModulus ELSE 0

\* the part that does hold: the first successful read gives zero, and a read
\* after a sample other than zero gives current - last
DeltaAgainstNonZeroSample ==
  (tk.done /\ ~tk.rpcErr /\ (~tk.hadSample \/ tk.prevOps > 0)) =>
    tk.opsDelta = IF tk.hadSample THEN (tk.currOps - tk.prevOps) % OpsModulus ELSE 0

\* a previous sample of zero is taken for no sample
ZeroSampleTakenForNone ==
  (tk.done /\ ~tk.rpcErr /\ tk.hadSample /\ tk.prevOps = 0) => tk.opsDelta = 0

\* C25: after a tick whose RPC-stats read failed, the next successful read is
\* treated as bootstrap: its ops delta is zero, so operations counted across
\* the failed read never by themselves yield an ACTIVE verdict.
C25_BootstrapAfterFailedRead ==
  (tk.done /\ ~tk.rpcErr /\ tk.afterFailed) =>
    (tk.opsDelta = 0 /\ tk.reason # "NFS Activity")

\* what the code does instead: a failed read gives a delta of zero in its own
\* tick and leaves lastOps as it was, so the next successful read is compared
\* with the sample taken before the failure
FailedReadKeepsLastOps ==
  /\ (tk.done /\ tk.rpcErr) => (tk.opsDelta = 0 /\ lastOps = tk.prevOps)
  /\ (tk.done /\ ~tk.rpcErr /\ tk.afterFailed /\ tk.prevOps > 0) =>
       tk.opsDelta = (tk.currOps - tk.prevOps) % OpsModulus

(***************************************************************************)
(* Properties of the watcher after a shutdown commit.                      *)
(***************************************************************************)
\* C26: Shutdown is a terminal state of the watcher: after the shutdown
\* action has been committed the watcher evaluates no further tick, so it
\* never returns to Monitoring or IdleCountdown and never commits shutdown a
\* second time.
C26_ShutdownIsTerminal ==
  shutdownInvoked =>
    (watchPc \in {"select", "returned"} /\ tk.done /\ tk.called /\ ~tk.afterCall)

\* what the code does instead: every tick is evaluated like the ticks before
\* the commit, and an ACTIVE verdict after a commit resets idleStart
TicksGoOnAfterCommit ==
  (shutdownInvoked /\ tk.done) =>
    /\ tk.active = Verdict(tk.isLow, tk.nClients, tk.opsDelta).active
    /\ tk.active => idleStart = now

Exceeded == tk.elapsed > cfgW.IdleTimeout

\* C28: idle_since changes in exactly two cases: a tick with an ACTIVE
\* verdict sets it to that tick's time, and in dry-run mode an IDLE tick
\* whose elapsed idle time exceeds idle_timeout sets it to that tick's time;
\* every other IDLE tick, one with elapsed time less than or equal to
\* idle_timeout included, leaves idle_since unchanged, and so does every step
\* that is not the verdict of a tick.
C28_IdleSinceFrame ==
  /\ [](tk.done =>
          idleStart = IF tk.active \/ (cfgW.DryRun /\ Exceeded) THEN now
                      ELSE now - tk.elapsed)
  /\ [][idleStart' # idleStart => (watchPc = "decide" /\ tk'.done /\ idleStart' = now)]_vars

\* an IDLE tick with elapsed time equal to idle_timeout left idleStart alone,
\* after an earlier ACTIVE tick had moved it
C28_Witness ==
  /\ tk.done /\ ~tk.active /\ tk.elapsed = cfgW.IdleTimeout
  /\ idleStart = lastActiveAt /\ idleStart > 0 /\ idleStart < now

\* C29: when the previous ops total is non-zero, the ops delta is
\* current - last on unsigned 64-bit integers (OpsModulus stands for 2^64), so
\* it is non-zero exactly when current differs from last: a counter that
\* decreases between two successful reads yields a positive delta and, with
\* low load and no clients, an ACTIVE verdict.
C29_DeltaWrapsOnDecrease ==
  (tk.done /\ ~tk.rpcErr /\ tk.prevOps > 0) =>
    /\ tk.opsDelta \in 0..(OpsModulus - 1)
    /\ (tk.prevOps + tk.opsDelta) % OpsModulus = tk.currOps
    /\ (tk.opsDelta # 0) <=> (tk.currOps # tk.prevOps)
    /\ (tk.currOps < tk.prevOps /\ tk.isLow /\ tk.nClients = 0) =>
         (tk.opsDelta > 0 /\ tk.active /\ tk.reason = "NFS Activity")

\* the counter went down from 3 to 1 with low load and no clients, and the
\* tick was ACTIVE
C29_Witness ==
  /\ tk.done /\ ~tk.rpcErr /\ tk.prevOps = 3 /\ tk.currOps = 1
  /\ tk.isLow /\ tk.nClients = 0
  /\ tk.opsDelta = 2 /\ tk.active

(***************************************************************************)
(* Properties of the remote diff.                                          *)
(***************************************************************************)
\* C30: the remote diff reports a file as changed if and only if the file is
\* missing or unreadable or its content differs byte-for-byte from the
\* freshly rendered content; a remote file whose bytes equal the rendered
\* content is reported as unchanged.
C30_RemoteDiffByteForByte ==
  \A i \in LogIdx :
    opLog[i].op = "cat" =>
      ((opLog[i].cmds = Reported(TRUE)) <=> ~opLog[i].flag)

\* the part that does hold: a file that is missing or differs is reported as
\* changed, and the watcher unit's report is what serviceChanged holds
RemoteDifferenceReported ==
  /\ \A i \in LogIdx :
       (opLog[i].op = "cat" /\ ~opLog[i].flag) => opLog[i].cmds = Reported(TRUE)
  /\ applyPc = "scpBinary" =>
       /\ opLog[Len(opLog) - 1].op = "cat" /\ opLog[Len(opLog) - 1].arg = "service"
       /\ opLog[Len(opLog) - 1].cmds = Reported(serviceChanged)

\* what the code does instead: every rendered file ends with a newline that
\* RunCommand trims from what it read, so every file is reported as changed
RemoteAlwaysReportedChanged ==
  \A i \in LogIdx : opLog[i].op = "cat" => opLog[i].cmds = Reported(TRUE)

(***************************************************************************)
(* Properties of the remote installation and of the local unit loop.       *)
(***************************************************************************)
EnableWatcher == "systemctl enable --now autonfs-watcher.service"
ReExport == "exportfs -ra"

\* the installation commands that ran to the end
InstallsOk == {i \in LogIdx : opLog[i].op = "install" /\ opLog[i].arg = "ok"}

\* the remote diff of `what` that precedes the installation logged at i
DiffBefore(i, what) ==
  opLog[CHOOSE j \in 1..i :
          /\ opLog[j].op = "cat" /\ opLog[j].arg = what
          /\ opLog[j].host = opLog[i].host
          /\ \A k \in (j + 1)..i : ~(opLog[k].op = "cat" /\ opLog[k].arg = what)]

\* C31: the non-dry-run installation command contains a restart of the
\* watcher service if and only if the remote diff reported the watcher unit as
\* changed, and then as its last step; what the diff of the exports file
\* reported never adds a restart; enable-and-start of the watcher and the
\* re-export are always present.
C31_RestartIffServiceChanged ==
  /\ \A i \in InstallsOk :
       LET cmds == opLog[i].cmds IN
       /\ Contains(cmds, RestartWatcher)
            <=> (DiffBefore(i, "service").cmds = Reported(TRUE))
       /\ \A k \in 1..Len(cmds) : cmds[k] = RestartWatcher => k = Len(cmds)
       /\ Contains(cmds, EnableWatcher)
       /\ Contains(cmds, ReExport)
  /\ \A svc \in BOOLEAN :
       /\ Contains(InstallCmds(svc), RestartWatcher) <=> svc
       /\ Contains(InstallCmds(svc), EnableWatcher)
       /\ Contains(InstallCmds(svc), ReExport)

\* an installation ran whose watcher unit was reported as changed, and the
\* restart was its last command
C31_Witness ==
  \E i \in InstallsOk :
    /\ DiffBefore(i, "service").cmds = Reported(TRUE)
    /\ opLog[i].cmds[Len(opLog[i].cmds)] = RestartWatcher
    /\ ~optsD.DryRun

\* the commands `systemctl enable --now <unit>.automount` that were run
Enables == {i \in LogIdx : opLog[i].op = "enable"}

\* the comparison of the unit file of `kind` that precedes the enable logged at i
ReadBefore(i, kind) ==
  opLog[CHOOSE j \in 1..i :
          /\ opLog[j].op = "readfile" /\ opLog[j].arg = kind
          /\ \A k \in (j + 1)..i : ~(opLog[k].op = "readfile" /\ opLog[k].arg = kind)]

\* the content of the .mount or of the .automount file of the mount enabled at
\* i differed from what was rendered (a missing file differs)
UnitDiffered(i) == ~ReadBefore(i, "mount").flag \/ ~ReadBefore(i, "automount").flag

\* `systemctl restart <unit>.automount` was issued for the mount enabled at i:
\* it is in the log, or it is the command whose failure made Apply return
RestartIssued(i) ==
  /\ i < Len(opLog)
  /\ opLog[i + 1].op = "daemon-reload" /\ opLog[i + 1].arg = "mount"
  /\ \/ /\ i + 2 <= Len(opLog)
        /\ opLog[i + 2].op = "restart" /\ opLog[i + 2].arg = opLog[i].arg
     \/ /\ i + 1 = Len(opLog)
        /\ applyPc = "idle" /\ applyErr # NoErr /\ applyErr.step = "restart"

\* the restart of the mount enabled at i is still to be decided or to be run
RestartPending(i) == i = Len(opLog) /\ applyPc = "restart"

\* C32: for every mount of a non-dry-run apply, `systemctl enable --now
\* <unit>.automount` is issued whether or not anything changed, and
\* `systemctl restart <unit>.automount` is issued if and only if the content
\* of the .mount or of the .automount file (a missing or unreadable file
\* counts as different) differed from the rendered content.
C32_EnableAlwaysRestartIffChanged ==
  /\ AppliedOk =>
       \A hm \in MountsOf(cfgD) :
         \E i \in Enables : opLog[i].host = hm[1] /\ opLog[i].arg = UnitOf(cfgD, hm)
  /\ AppliedOk =>
       \A h \in 1..Len(cfgD) : Cardinality(OpsOf(h, "enable")) = Len(cfgD[h].Mounts)
  /\ \A i \in Enables :
       /\ ReadBefore(i, "mount").unit = opLog[i].arg
       /\ ReadBefore(i, "automount").unit = opLog[i].arg
       /\ ~RestartPending(i) => (RestartIssued(i) <=> UnitDiffered(i))
  /\ \A i \in LogIdx :
       opLog[i].op = "restart" => (i > 2 /\ opLog[i - 2].op = "enable")

\* one apply enabled a mount whose files were up to date without restarting
\* it, and enabled and restarted another whose file was missing or different
C32_Witness ==
  /\ AppliedOk
  /\ \E i, j \in Enables :
       /\ ~UnitDiffered(i) /\ ~RestartIssued(i)
       /\ UnitDiffered(j) /\ RestartIssued(j) /\ j + 2 <= Len(opLog)

\* applyHost returned nil for host h in a non-dry-run apply
HostDone(h) ==
  /\ run >= 1 /\ ~optsD.DryRun /\ h \in 1..Len(cfgD)
  /\ hostIdx > h \/ (hostIdx = h /\ applyPc = "idle" /\ applyErr = NoErr)

\* a local unit file of host h differed from its rendered content
LocalChanged(h) == \E i \in OpsOf(h, "readfile") : ~opLog[i].flag

\* the daemon-reloads of host h issued after the loop over its mounts
ReloadsAfterLoop(h) == {i \in OpsOf(h, "daemon-reload") : opLog[i].arg = "host"}

\* C33: in a non-dry-run apply of one host, if at least one local unit file
\* changed then exactly one daemon-reload is issued for that host and it is
\* issued after the last mount has been processed; if no local unit file
\* changed, no daemon-reload is issued.
C33_ExactlyOneReload ==
  \A h \in 1..Len(cfgD) :
    HostDone(h) =>
      IF LocalChanged(h)
        THEN /\ Cardinality(OpsOf(h, "daemon-reload")) = 1
             /\ \A i \in OpsOf(h, "daemon-reload") :
                  \A j \in LogIdx : opLog[j].host = h => j <= i
        ELSE OpsOf(h, "daemon-reload") = {}

\* C33, amended: in a non-dry-run apply of one host that processed every
\* mount, if at least one local unit file changed then exactly one
\* daemon-reload is issued after the last mount has been processed, besides
\* the one issued right before each restart of a changed unit; if no local
\* unit file changed, no daemon-reload is issued.
C33_OneReloadAfterLoop ==
  \A h \in 1..Len(cfgD) :
    HostDone(h) =>
      IF LocalChanged(h)
        THEN /\ Cardinality(ReloadsAfterLoop(h)) = 1
             /\ \A i \in ReloadsAfterLoop(h) :
                  \A j \in LogIdx : opLog[j].host = h => j <= i
             /\ \A i \in OpsOf(h, "daemon-reload") \ ReloadsAfterLoop(h) :
                  /\ i < Len(opLog)
                  /\ opLog[i + 1].op = "restart" /\ opLog[i + 1].host = h
        ELSE OpsOf(h, "daemon-reload") = {}

\* a host with two mounts was applied: both were restarted after a reload of
\* their own and one more reload closed the host
C33_Witness ==
  \E h \in 1..Len(cfgD) :
    /\ HostDone(h) /\ LocalChanged(h)
    /\ Cardinality(OpsOf(h, "restart")) = 2
    /\ Cardinality(OpsOf(h, "daemon-reload")) = 3
    /\ Cardinality(ReloadsAfterLoop(h)) = 1

\* the steps of the installation in the order the claim gives them
FixedInstallOrder ==
  << "mv /tmp/autonfs /usr/local/bin/autonfs",
     "chmod +x /usr/local/bin/autonfs",
     "mv /tmp/autonfs-watcher.service /etc/systemd/system/autonfs-watcher.service",
     "mkdir -p /etc/exports.d",
     "mv /tmp/autonfs.exports /etc/exports.d/autonfs.exports",
     "systemctl daemon-reload",
     EnableWatcher,
     ReExport,
     RestartWatcher >>

IsPrefix(s, t) == Len(s) <= Len(t) /\ s = SubSeq(t, 1, Len(s))

Installs == {i \in LogIdx : opLog[i].op = "install"}

\* C34: the fused remote installation runs its steps in the fixed order: move
\* binary, mark it executable, move the unit, create /etc/exports.d, move the
\* exports file, reload the unit manager, enable-and-start the watcher,
\* re-export, then the optional restart. If any step fails, no later step
\* runs, Apply returns an error, and the local setup of that host is not
\* started.
C34_InstallOrderAndAbort ==
  \A i \in Installs :
    LET ran == opLog[i].cmds
        h == opLog[i].host
    IN
    /\ IsPrefix(ran, FixedInstallOrder)
    /\ opLog[i].arg = "ok" =>
         Len(ran) = IF opLog[i].flag THEN 9 ELSE 8
    /\ opLog[i].arg = "failed" =>
         /\ Len(ran) < (IF opLog[i].flag THEN 9 ELSE 8)
         /\ i = Len(opLog)
         /\ applyPc = "idle"
         /\ applyErr = [host |-> cfgD[h].Alias, step |-> "install"]
         /\ \A j \in LogIdx :
              opLog[j].host = h =>
                opLog[j].op \notin {"readfile", "mv", "enable", "daemon-reload", "restart"}

\* the installation of a host failed at its sixth step after five steps ran,
\* and Apply returned the error
C34_Witness ==
  \E i \in Installs :
    /\ opLog[i].arg = "failed" /\ Len(opLog[i].cmds) = 5
    /\ applyPc = "idle" /\ applyErr # NoErr

UploadSteps == <<"scpBinary", "scpService", "scpExports">>

\* Apply returned because an upload of the host at hostIdx failed
UploadFailed ==
  /\ run >= 1 /\ applyPc = "idle" /\ applyErr # NoErr
  /\ Contains(UploadSteps, applyErr.step)

\* C35: the remote install command of a host is executed only after the
\* binary, the service unit and the exports file have all been uploaded to
\* their /tmp staging paths, in that order; if any upload fails, no install
\* command is run, so nothing under /usr/local/bin, /etc/systemd/system or
\* /etc/exports.d of that host is modified, and no local step of that host
\* runs.
C35_InstallOnlyAfterUploads ==
  /\ [](/\ \A i \in Installs :
             /\ i > 3
             /\ \A k \in 1..3 :
                  /\ opLog[i - 4 + k].op = "scp"
                  /\ opLog[i - 4 + k].arg = UploadSteps[k]
                  /\ opLog[i - 4 + k].host = opLog[i].host
        /\ UploadFailed =>
             \A j \in LogIdx :
               opLog[j].host = hostIdx =>
                 opLog[j].op \notin {"install", "readfile", "mv", "enable",
                                     "daemon-reload", "restart"})
  /\ [][Contains(UploadSteps, applyPc) =>
          (remote' = remote /\ localFiles' = localFiles)]_vars
  /\ [][remote' # remote =>
          /\ applyPc = "install"
          /\ opLog[Len(opLog)].op = "scp" /\ opLog[Len(opLog)].arg = "scpExports"]_vars

\* the upload of the service unit failed after the binary was uploaded, and
\* Apply returned without an installation
C35_Witness ==
  /\ UploadFailed /\ applyErr.step = "scpService"
  /\ opLog[Len(opLog)].op = "scp" /\ opLog[Len(opLog)].arg = "scpBinary"
  /\ Installs = {}

\* the local operations of one mount, in the order the claim gives them
LocalRank(o) ==
  CASE o.op = "readfile" /\ o.arg = "mount" -> 1
    [] o.op = "mv" /\ o.arg = "mount" -> 2
    [] o.op = "readfile" /\ o.arg = "automount" -> 3
    [] o.op = "mv" /\ o.arg = "automount" -> 4
    [] o.op = "enable" -> 5
    [] o.op = "daemon-reload" /\ o.arg = "mount" -> 6
    [] o.op = "restart" -> 7
    [] OTHER -> 0

LocalOps == {i \in LogIdx : LocalRank(opLog[i]) > 0}

\* the operations of the mount whose restart is logged at r: from the
\* comparison of its .mount file up to r
MountSpan(r) ==
  LET first == CHOOSE j \in 1..r :
                 /\ LocalRank(opLog[j]) = 1
                 /\ \A k \in (j + 1)..r : LocalRank(opLog[k]) # 1
  IN first..r

\* C36: for each mount in a non-dry-run apply the local commands are issued
\* in this order: write the .mount file (if changed), write the .automount
\* file (if changed), enable --now the .automount, and then, only if a file
\* changed, daemon-reload followed by restart. Hence every restart is
\* preceded by a daemon-reload issued after that unit's files were written,
\* while enable --now is issued before that daemon-reload.
C36_LocalCommandOrder ==
  /\ \A i \in LocalOps :
       (i < Len(opLog) /\ LocalRank(opLog[i + 1]) > 1) =>
         /\ LocalRank(opLog[i]) < LocalRank(opLog[i + 1])
         /\ opLog[i + 1].host = opLog[i].host
  /\ \A i \in LocalOps :
       LocalRank(opLog[i]) = 6 =>
         /\ i > 1 /\ LocalRank(opLog[i - 1]) = 5
         /\ UnitDiffered(i - 1)
  /\ \A r \in LogIdx :
       opLog[r].op = "restart" =>
         /\ ~optsD.DryRun
         /\ LocalRank(opLog[r - 1]) = 6
         /\ LocalRank(opLog[r - 2]) = 5 /\ opLog[r - 2].arg = opLog[r].arg
         /\ \E j \in MountSpan(r) : opLog[j].op = "mv" /\ opLog[j].unit = opLog[r].arg
         /\ \A j \in MountSpan(r) :
              opLog[j].op = "mv" => (j < r - 2 /\ opLog[j].unit = opLog[r].arg)

\* both files of a mount were written, the unit was enabled, the units were
\* reloaded and the unit was restarted, in that order
C36_Witness ==
  \E r \in LogIdx :
    /\ r >= 7 /\ opLog[r].op = "restart"
    /\ [k \in 1..7 |-> LocalRank(opLog[r - 7 + k])] = <<1, 2, 3, 4, 5, 6, 7>>

(***************************************************************************)
(* Properties of the dry-run and of the rendered timeouts.                 *)
(***************************************************************************)
\* C37: in dry-run the cross-build step is skipped: Apply with DryRun = true
\* never invokes the builder.
C37_DryRunSkipsBuild ==
  optsD.DryRun => \A i \in LogIdx : opLog[i].op # "build"

\* what the code does instead: the builder is invoked for every host that was
\* probed, in dry-run as in a real apply, and a failed build ends a dry-run
BuildInvokedForEveryHost ==
  /\ \A i \in LogIdx :
       opLog[i].op = "probe" =>
         \/ i < Len(opLog) /\ opLog[i + 1].op = "build"
                           /\ opLog[i + 1].host = opLog[i].host
         \/ i = Len(opLog) /\ applyPc = "build"
         \/ i = Len(opLog) /\ applyPc = "idle" /\ applyErr # NoErr
                           /\ applyErr.step = "build"
  /\ \A i \in LogIdx :
       opLog[i].op = "build" => (i > 1 /\ opLog[i - 1].op = "probe")

\* applyHost went past its remote part for host h in a dry-run
DryRunPastRemote(h) ==
  /\ run >= 1 /\ optsD.DryRun /\ h \in 1..Len(cfgD)
  /\ \/ hostIdx > h
     \/ hostIdx = h /\ applyPc \in {"mountUnit", "automountUnit", "enable",
                                    "restart", "hostEnd"}
     \/ hostIdx = h /\ applyPc = "idle" /\ applyErr = NoErr

\* applyHost returned nil for host h in a dry-run
DryRunDone(h) ==
  /\ DryRunPastRemote(h)
  /\ hostIdx > h \/ applyPc = "idle"

\* the comparisons of the local unit files of host h
LocalDiffs(h, kind) == {i \in OpsOf(h, "readfile") : opLog[i].arg = kind}

\* C38: in dry-run the diff steps still run, read-only: for the remote
\* watcher unit and exports file and for every local .mount and .automount
\* unit the current content is read and compared with the rendered content,
\* so the set of files a dry-run reports as changing equals the set of files
\* a real apply on the same state would treat as changed.
C38_DryRunStillDiffs ==
  \A h \in 1..Len(cfgD) :
    /\ DryRunPastRemote(h) =>
         \A what \in {"service", "exports"} :
           \E i \in OpsOf(h, "cat") :
             /\ opLog[i].arg = what
             /\ opLog[i].cmds =
                  Reported(remoteHasChange(remote[cfgD[h].Alias][what],
                             IF what = "service" THEN ServiceContentOf(cfgD[h], optsD)
                             ELSE ExportsContentOf(cfgD[h])))
    /\ DryRunDone(h) =>
         \A kind \in {"mount", "automount"} :
           Cardinality(LocalDiffs(h, kind)) = Len(cfgD[h].Mounts)

\* the part that does hold: a dry-run compares every local unit file with its
\* rendered content and writes nothing
DryRunLocalDiffsRun ==
  /\ \A h \in 1..Len(cfgD) :
       DryRunDone(h) =>
         \A kind \in {"mount", "automount"} :
           Cardinality(LocalDiffs(h, kind)) = Len(cfgD[h].Mounts)
  /\ optsD.DryRun =>
       \A i \in LogIdx :
         /\ opLog[i].op \notin {"mv", "scp", "install", "enable", "restart"}
         /\ (opLog[i].op = "readfile" /\ DistinctUnits(cfgD)) =>
              (opLog[i].flag <=> localFiles[<<opLog[i].unit, opLog[i].arg>>] # NoFile
                                 /\ ~hasChange(localFiles[<<opLog[i].unit, opLog[i].arg>>],
                                      IF opLog[i].arg = "mount"
                                        THEN MountContentOf(cfgD[opLog[i].host],
                                               CHOOSE m \in {cfgD[opLog[i].host].Mounts[k] :
                                                      k \in 1..Len(cfgD[opLog[i].host].Mounts)} :
                                                 escapeSystemdPath(m.Local) = opLog[i].unit)
                                        ELSE AutomountContentOf(cfgD[opLog[i].host],
                                               CHOOSE m \in {cfgD[opLog[i].host].Mounts[k] :
                                                      k \in 1..Len(cfgD[opLog[i].host].Mounts)} :
                                                 escapeSystemdPath(m.Local) = opLog[i].unit)))

\* what the code does instead: a dry-run never reads a remote file
DryRunReadsNoRemoteFile ==
  optsD.DryRun => \A i \in LogIdx : opLog[i].op # "cat"

\* the text a rendered unit holds right after `key`
ValueAfter(content, key) ==
  content[(CHOOSE k \in 1..Len(content) : content[k] = key) + 1]

TimeoutIdleSecOf(automount) == ValueAfter(automount, "TimeoutIdleSec=")

WatchTimeoutOf(service) ==
  ValueAfter(service, "ExecStart=/usr/local/bin/autonfs watch --timeout ")

\* the .automount files written in this apply
AutomountWrites == {i \in LogIdx : opLog[i].op = "mv" /\ opLog[i].arg = "automount"}

\* C39: for every host, the idle timeout rendered into each client
\* .automount unit (TimeoutIdleSec) is the same value as the idle timeout
\* rendered into that host's server watcher unit (--timeout), including when
\* idle_timeout is omitted from the configuration and the default of 5m
\* applies.
C39_SameIdleTimeoutBothSides ==
  \A i \in AutomountWrites :
    LET host == cfgD[opLog[i].host] IN
    /\ TimeoutIdleSecOf(opLog[i].cmds) = WatchTimeoutOf(remote[host.Alias].service)
    /\ host.IdleTimeout = "" => TimeoutIdleSecOf(opLog[i].cmds) = "5m"

\* the part that does hold: the two values are equal when idle_timeout is
\* given, and the watcher unit gets 5m when it is omitted
SameIdleTimeoutWhenGiven ==
  \A i \in AutomountWrites :
    LET host == cfgD[opLog[i].host] IN
    /\ host.IdleTimeout # "" =>
         /\ TimeoutIdleSecOf(opLog[i].cmds) = host.IdleTimeout
         /\ WatchTimeoutOf(remote[host.Alias].service) = host.IdleTimeout
    /\ host.IdleTimeout = "" => WatchTimeoutOf(remote[host.Alias].service) = "5m"

\* what the code does instead: with idle_timeout omitted the .automount unit
\* is written with an empty TimeoutIdleSec
EmptyTimeoutIdleSecWhenOmitted ==
  \A i \in AutomountWrites :
    cfgD[opLog[i].host].IdleTimeout = "" => TimeoutIdleSecOf(opLog[i].cmds) = ""

(***************************************************************************)
(* Properties of the legacy deploy path.                                   *)
(***************************************************************************)
\* Run's Apply returned nil and was not a dry-run
LegacyApplied ==
  legacyPc = "applied" /\ applyPc = "idle" /\ applyErr = NoErr /\ ~legacyOpts.DryRun

\* the four files the apply of Run's one mount leaves behind
LegacyArtifacts ==
  LET unit == escapeSystemdPath(legacyOpts.LocalDir) IN
  << remote[legacyOpts.SSHAlias].service, remote[legacyOpts.SSHAlias].exports,
     localFiles[<<unit, "mount">>], localFiles[<<unit, "automount">>] >>

LoadOf(service) == ValueAfter(service, " --load ")

\* alias, local directory, remote directory, idle timeout, dry-run and
\* watcher-dry-run reach the apply and its files
LegacyOptionsDelegated ==
  /\ legacyPc = "applied" =>
       /\ Len(cfgD) = 1 /\ Len(cfgD[1].Mounts) = 1
       /\ cfgD[1].Alias = legacyOpts.SSHAlias
       /\ cfgD[1].Mounts[1].Local = legacyOpts.LocalDir
       /\ cfgD[1].Mounts[1].Remote = legacyOpts.RemoteDir
       /\ cfgD[1].IdleTimeout = legacyOpts.IdleTimeout
       /\ optsD.DryRun = legacyOpts.DryRun
       /\ optsD.WatcherDryRun = legacyOpts.WatcherDryRun
       /\ legacyOpts.DryRun =>
            \A i \in LogIdx :
              opLog[i].op \notin {"scp", "install", "mv", "enable", "restart"}
  /\ LegacyApplied =>
       /\ LegacyArtifacts[1] = RenderService(
            IF legacyOpts.IdleTimeout = "" THEN "5m" ELSE legacyOpts.IdleTimeout,
            legacyOpts.WatcherDryRun)
       /\ Contains(LegacyArtifacts[1], " --dry-run") <=> legacyOpts.WatcherDryRun
       /\ Contains(LegacyArtifacts[2], legacyOpts.RemoteDir)
       /\ ValueAfter(LegacyArtifacts[3], "Where=") = legacyOpts.LocalDir
       /\ ValueAfter(LegacyArtifacts[3], ":") = legacyOpts.RemoteDir
       /\ ValueAfter(LegacyArtifacts[3], "What=") = ServerIP(legacyOpts.SSHAlias)
       /\ ValueAfter(LegacyArtifacts[4], "Where=") = legacyOpts.LocalDir
       /\ legacyOpts.IdleTimeout # "" =>
            TimeoutIdleSecOf(LegacyArtifacts[4]) = legacyOpts.IdleTimeout

\* C40: the legacy deploy path (Run) behaves exactly like Apply on a
\* synthesized configuration with one host and one mount, and every legacy
\* option takes effect in that apply: alias, local directory, remote
\* directory, idle timeout, wake timeout, dry-run, watcher-dry-run, and the
\* load threshold, which is the value rendered after --load in the watcher
\* unit.
C40_LegacyOptionsTakeEffect ==
  /\ LegacyOptionsDelegated
  /\ LegacyApplied =>
       /\ LoadOf(LegacyArtifacts[1]) = legacyOpts.LoadThreshold
       /\ legacyOpts.WakeTimeout # "" =>
            \E k \in 1..4 : Contains(LegacyArtifacts[k], legacyOpts.WakeTimeout)

\* what the code does instead: the watcher unit always holds --load 0.5, and
\* a wake timeout that is given appears in none of the four files
LoadThresholdAndWakeTimeoutDropped ==
  LegacyApplied =>
    /\ LoadOf(LegacyArtifacts[1]) = "0.5"
    /\ legacyOpts.WakeTimeout # "" =>
         /\ cfgD[1].WakeTimeout = legacyOpts.WakeTimeout
         /\ ServiceWakeTimeout(cfgD[1]) = legacyOpts.WakeTimeout
         /\ \A k \in 1..4 : ~Contains(LegacyArtifacts[k], legacyOpts.WakeTimeout)

====
